---- MODULE Spec2Model ----
(***************************************************************************)
(* A model of the shiro51 MCS-51 emulator.  The repository holds two      *)
(* implementations of the CPU core:                                        *)
(*   "legacy"  src/src/lib        (CPU::run_instruction, Memory)           *)
(*   "mcu"     src/shiro51-mcu    (CPU::cycle, insn_* handlers, BitAddr)   *)
(* The variable crate says which of the two is running.  Handlers are     *)
(* operators on the internal data array; actions apply them.               *)
(***************************************************************************)
EXTENDS Integers, Sequences, FiniteSets, TLC

VARIABLES
    crate,            \* "legacy" | "mcu" | "none" (a bare function under test)
    overflow_checks,  \* build profile: TRUE = debug (overflow panics), FALSE = release (wraps)
    pc,               \* CPU.pc
    ram,              \* legacy Memory.mem / mcu CPU.ram
    panicked,         \* the process has been aborted by a panic
    call,             \* the last operation and the inputs it read
    ret,              \* what the last operation returned
    nops,             \* number of operations executed so far
    initialized,      \* mcu CPU.initialized
    flash,            \* code memory: the cells that were loaded (every other cell holds 0)
    halt              \* legacy CPU.halt

vars == <<crate, overflow_checks, pc, ram, panicked, call, ret, nops, initialized, flash, halt>>

(***************************************************************************)
(* Program constants.                                                      *)
(***************************************************************************)
MEMORY_FLASH_SIZE == 65535
MEMORY_RAM_SIZE == 255
SFR_ACC == 224
SFR_PSW == 208
SFR_SP == 129

(***************************************************************************)
(* Bounds of the model.                                                    *)
(***************************************************************************)
MaxOps == 2

Byte == 0..255
ByteSamples == {0, 1, 15, 16, 84, 127, 128, 170, 195, 201, 254, 255}

(***************************************************************************)
(* u8 helpers.                                                             *)
(***************************************************************************)
Pow2(n) == 2^n

\* BitOps::get_bit: (self >> bit) & 1
get_bit(x, bit) == (x \div Pow2(bit)) % 2

\* BitOps::is_bit_set
is_bit_set(x, bit) == get_bit(x, bit) = 1

\* BitOps::set_bit: *self |= 1 << bit
set_bit(x, bit) == IF is_bit_set(x, bit) THEN x ELSE x + Pow2(bit)

\* BitOps::clear_bit: *self &= !(1 << bit)
clear_bit(x, bit) == IF is_bit_set(x, bit) THEN x - Pow2(bit) ELSE x

\* bitflags' set(flag, value) on a single-bit flag
assign_bit(x, bit, value) == IF value THEN set_bit(x, bit) ELSE clear_bit(x, bit)

\* BitOps::to_signed
to_signed(x) == IF x >= 0 /\ x <= 127 THEN x ELSE x - 256

(***************************************************************************)
(* shiro51-mcu arithmetic.rs: add.  The loop body for bit n on the state   *)
(* st = [lhs, carry, hist] and then the loop over n = 0..7.                *)
(***************************************************************************)
\* (the loop body with the carry-in dropped when both operand bits are set)
AddStepBuggy(st, rhs, n) ==
    LET both == is_bit_set(st.lhs, n) /\ is_bit_set(rhs, n)
        one  == is_bit_set(st.lhs, n) \/ is_bit_set(rhs, n)
    IN  IF both
        THEN [lhs |-> clear_bit(st.lhs, n), carry |-> TRUE, hist |-> set_bit(st.hist, n)]
        ELSE IF one /\ st.carry
        THEN [lhs |-> clear_bit(st.lhs, n), carry |-> TRUE, hist |-> set_bit(st.hist, n)]
        ELSE [lhs |-> assign_bit(st.lhs, n, one \/ st.carry), carry |-> FALSE,
              hist |-> clear_bit(st.hist, n)]

AddStep(st, rhs, n) ==
    LET n_shl      == Pow2(n)
        n_shl_prev == IF n = 0 THEN Pow2(0) ELSE Pow2(n - 1)
        prev       == IF n = 0 THEN 0 ELSE n - 1
        lhs_n      == get_bit(st.lhs, n) * n_shl
        rhs_n      == get_bit(rhs, n) * n_shl
    IN  IF lhs_n = n_shl /\ rhs_n = n_shl
        THEN \* carry-out
             [lhs   |-> IF ~st.carry THEN clear_bit(st.lhs, n) ELSE set_bit(st.lhs, n),
              carry |-> TRUE,
              hist  |-> set_bit(st.hist, n)]
        ELSE IF (lhs_n # 0 /\ st.carry) \/ (rhs_n # 0 /\ st.carry)
        THEN \* previous carry-out with continuation
             [lhs   |-> clear_bit(st.lhs, n),
              carry |-> TRUE,
              hist  |-> set_bit(st.hist, n)]
        ELSE IF (is_bit_set(st.lhs, prev) /\ st.carry) \/ (is_bit_set(rhs, prev) /\ st.carry)
        THEN \* previous carry-out without continuation
             [lhs   |-> set_bit(st.lhs, n),
              carry |-> FALSE,
              hist  |-> clear_bit(st.hist, n)]
        ELSE \* no carry-out
             [lhs   |-> IF st.carry /\ (lhs_n = 0 /\ rhs_n = 0)
                        THEN set_bit(st.lhs, n)
                        ELSE IF rhs_n # 0 THEN set_bit(st.lhs, n) ELSE st.lhs,
              carry |-> FALSE,
              hist  |-> clear_bit(st.hist, n)]

RECURSIVE AddLoop(_, _, _)
AddLoop(st, rhs, n) ==
    IF n > 7 THEN st ELSE AddLoop(AddStep(st, rhs, n), rhs, n + 1)

\* add(lhs: &mut u8, rhs) -> ArithmeticOpFlags; val is *lhs on return
add(lhs, rhs) ==
    LET st == AddLoop([lhs |-> lhs, carry |-> FALSE, hist |-> 0], rhs, 0)
    IN  [val |-> st.lhs,
         cy  |-> is_bit_set(st.hist, 7),
         ac  |-> is_bit_set(st.hist, 3),
         ov  |-> (is_bit_set(st.hist, 6) /\ ~is_bit_set(st.hist, 7))
                 \/ (~is_bit_set(st.hist, 6) /\ is_bit_set(st.hist, 7))]

(***************************************************************************)
(* Records of an operation and of its result.                              *)
(***************************************************************************)
NoCall == [op |-> "none", a |-> 0, b |-> 0, c |-> 0]
NoRet  == [kind |-> "none", val |-> 0, cy |-> FALSE, ac |-> FALSE, ov |-> FALSE]
ZeroRam == [i \in 0..(MEMORY_RAM_SIZE - 1) |-> 0]
\* [0u8; MEMORY_FLASH_SIZE]: no cell loaded
ZeroFlash == [i \in {} |-> 0]

(***************************************************************************)
(* The unit tests of add (tests::test_add1..test_add4): add applied to a   *)
(* pair of bytes.                                                          *)
(***************************************************************************)
InitAdd ==
    /\ crate = "none"
    /\ overflow_checks \in BOOLEAN
    /\ pc = 0
    /\ ram = ZeroRam
    /\ panicked = FALSE
    /\ \E a \in Byte, b \in Byte : call = [op |-> "args", a |-> a, b |-> b, c |-> 0]
    /\ ret = NoRet
    /\ nops = 0
    /\ initialized = TRUE
    /\ flash = ZeroFlash
    /\ halt = FALSE

test_add ==
    /\ call.op = "args"
    /\ LET r == add(call.a, call.b)
       IN  ret' = [kind |-> "Ok", val |-> r.val, cy |-> r.cy, ac |-> r.ac, ov |-> r.ov]
    /\ call' = [call EXCEPT !.op = "add"]
    /\ nops' = nops + 1
    /\ UNCHANGED <<halt, crate, overflow_checks, initialized, flash, pc, ram, panicked>>

NextAdd == test_add

SpecAdd == InitAdd /\ [][NextAdd]_vars

(***************************************************************************)
(* C1: for every pair of bytes (a, b), add(a, b) returns (a + b) mod 256   *)
(* with CY = (a + b >= 256), AC = ((a & 0xF) + (b & 0xF) >= 16) and        *)
(* OV = (a and b have the same sign bit and the result's differs), where   *)
(* sign(x) = x >= 128.                                                     *)
(***************************************************************************)
sign(x) == x >= 128

C1_AddContract ==
    call.op = "add" =>
        /\ ret.val = (call.a + call.b) % 256
        /\ ret.cy = (call.a + call.b >= 256)
        /\ ret.ac = ((call.a % 16) + (call.b % 16) >= 16)
        /\ ret.ov = (sign(call.a) = sign(call.b) /\ sign(ret.val) # sign(call.a))

\* add has been applied to 0xC3 + 0xAA (carry and overflow, no auxiliary carry)
C1_Witness ==
    /\ call = [op |-> "add", a |-> 195, b |-> 170, c |-> 0]
    /\ ret.val = 109 /\ ret.cy /\ ~ret.ac /\ ret.ov

(***************************************************************************)
(* Internal data: direct, SFR and register-bank views of one array.        *)
(***************************************************************************)
\* Memory::write / CPU::write on an index in range
write(mem, addr, val) == [mem EXCEPT ![addr] = val]

\* legacy Memory::cur_reg_bank: (rs1 << 1) | rs0
cur_reg_bank(mem) == 2 * get_bit(mem[SFR_PSW], 4) + get_bit(mem[SFR_PSW], 3)

\* legacy Memory::get_gpr_reg / set_gpr_reg: the cell reg_addr * cur_reg_bank()
gpr_cell(mem, reg) == reg * cur_reg_bank(mem)
get_gpr_reg(mem, reg) == mem[gpr_cell(mem, reg)]
set_gpr_reg(mem, reg, val) == write(mem, gpr_cell(mem, reg), val)

\* mcu GPR::addr: Addr8::new(self as u8)
GPR_addr(mem, rn) == rn

(***************************************************************************)
(* A handler's outcome: the internal data it leaves and what it returns    *)
(* ("panic" when the process aborts; the data is then of no consequence).  *)
(***************************************************************************)
Out(mem, res) == [mem |-> mem, res |-> res]

\* u8 + u8: wraps in a release build, panics with overflow checks on
u8_add_overflows(x, y) == x + y > 255

(***************************************************************************)
(* legacy CPU::addc and CPU::subb.                                         *)
(***************************************************************************)
legacy_addc(mem, lhs, rhs, checks) ==
    LET psw  == mem[SFR_PSW]
        cin  == get_bit(psw, 7)
        sum  == (rhs + cin) % 256
        res  == (lhs + sum) % 256
        bit6overflow == is_bit_set(rhs, 6) /\ is_bit_set(lhs, 6)
        bit7overflow == is_bit_set(rhs, 7) /\ is_bit_set(lhs, 7)
        psw1 == IF bit6overflow /\ ~bit7overflow THEN set_bit(psw, 7)
                ELSE IF ~bit6overflow /\ bit7overflow THEN set_bit(psw, 2)
                ELSE psw
    IN  IF u8_add_overflows(rhs, cin) /\ checks
        THEN Out(mem, "panic")
        ELSE Out(write(write(mem, SFR_ACC, res), SFR_PSW, psw1), "Advance")

legacy_subb(mem, lhs, rhs, checks) ==
    LET psw  == mem[SFR_PSW]
        cin  == get_bit(psw, 7)
        sum  == (rhs + cin) % 256
        res0 == lhs - sum
        res  == IF res0 < 0 THEN res0 + 256 ELSE res0
        psw1 == IF res0 < 0 THEN set_bit(psw, 7) ELSE clear_bit(psw, 7)
        signed_res == to_signed(lhs) - to_signed(rhs)
        psw2 == IF signed_res <= 127 /\ signed_res >= -128
                THEN clear_bit(psw1, 2) ELSE set_bit(psw1, 2)
        lhs_low_nibble == lhs % 16
        rhs_low_nibble == rhs % 16
        psw3 == IF lhs_low_nibble < rhs_low_nibble
                THEN set_bit(psw2, 6) ELSE clear_bit(psw2, 6)
    IN  IF u8_add_overflows(rhs, cin) /\ checks
        THEN Out(mem, "panic")
        ELSE Out(write(write(mem, SFR_ACC, res % 256), SFR_PSW, psw3), "Advance")

(***************************************************************************)
(* mcu insn_addc_a_rn: add, then acc += 1, flags taken from add.           *)
(***************************************************************************)
insn_addc_a_rn(mem, rn, checks) ==
    LET psw  == mem[SFR_PSW]
        acc  == mem[SFR_ACC]
        r    == add(acc, mem[GPR_addr(mem, rn)])
        acc1 == (r.val + 1) % 256
        psw1 == assign_bit(assign_bit(assign_bit(psw, 7, r.cy), 6, r.ac), 2, r.ov)
    IN  IF u8_add_overflows(r.val, 1) /\ checks
        THEN Out(mem, "panic")
        ELSE Out(write(write(mem, SFR_ACC, acc1), SFR_PSW, psw1), "ADVANCE")

\* mcu insn_add_a_const: add, then PSW bits 7, 6 and 2 set or cleared from
\* the flags add returns
insn_add_a_const(mem, arg0) ==
    LET psw  == mem[SFR_PSW]
        r    == add(mem[SFR_ACC], arg0)
        psw1 == assign_bit(assign_bit(assign_bit(psw, 7, r.cy), 6, r.ac), 2, r.ov)
    IN  Out(write(write(mem, SFR_ACC, r.val), SFR_PSW, psw1), "ADVANCE")

\* mcu insn_add_a_rn: the operand is read at GPR::from(rn).addr()
insn_add_a_rn(mem, rn) == insn_add_a_const(mem, mem[GPR_addr(mem, rn)])

\* mcu insn_add_a_rn_indirect: the operand is read at GPR::from(rn).addr()
insn_add_a_rn_indirect(mem, rn) == insn_add_a_const(mem, mem[GPR_addr(mem, rn)])

\* mcu insn_addc_a_rn_indirect: as insn_addc_a_rn, rn counted from
\* ADDC_A_INDIRECT_R0
insn_addc_a_rn_indirect(mem, rn, checks) == insn_addc_a_rn(mem, rn, checks)

(***************************************************************************)
(* The arithmetic instructions on a CPU whose accumulator, PSW and         *)
(* registers hold sampled values.                                          *)
(***************************************************************************)
PswSamples == {0, 128, 68, 196, 152}
Regs == 0..7

ArithRam(acc, b, psw) ==
    [i \in 0..(MEMORY_RAM_SIZE - 1) |->
        IF i < 32 THEN b
        ELSE IF i = SFR_ACC THEN acc
        ELSE IF i = SFR_PSW THEN psw
        ELSE IF i = SFR_SP THEN 7
        ELSE 0]

InitArith ==
    /\ crate \in {"legacy", "mcu"}
    /\ overflow_checks \in BOOLEAN
    /\ pc = 0
    /\ \E acc \in ByteSamples, b \in ByteSamples, psw \in PswSamples :
            ram = ArithRam(acc, b, psw)
    /\ panicked = FALSE
    /\ call = NoCall
    /\ ret = NoRet
    /\ nops = 0
    /\ initialized = TRUE
    /\ flash = ZeroFlash
    /\ halt = FALSE

\* what a handler leaves: the data, the disposition, the panic flag
Apply(out) ==
    /\ ram' = out.mem
    /\ panicked' = (out.res = "panic")
    /\ ret' = [NoRet EXCEPT !.kind = out.res]
    /\ nops' = nops + 1
    /\ UNCHANGED <<halt, crate, overflow_checks, initialized, flash>>

Running == ~panicked /\ nops < MaxOps

\* legacy run_instruction, ADDC_A_R0..ADDC_A_R7
legacy_ADDC_A_Rn ==
    /\ Running /\ crate = "legacy"
    /\ \E rn \in Regs :
        LET acc == ram[SFR_ACC]
            reg == get_gpr_reg(ram, rn)
        IN  /\ call' = [op |-> "ADDC", a |-> acc, b |-> reg, c |-> get_bit(ram[SFR_PSW], 7)]
            /\ Apply(legacy_addc(ram, acc, reg, overflow_checks))
    /\ UNCHANGED pc

\* legacy run_instruction, SUBB_A_R0..SUBB_A_R7
legacy_SUBB_A_Rn ==
    /\ Running /\ crate = "legacy"
    /\ \E rn \in Regs :
        LET reg == get_gpr_reg(ram, rn)
            acc == ram[SFR_ACC]
        IN  /\ call' = [op |-> "SUBB", a |-> acc, b |-> reg, c |-> get_bit(ram[SFR_PSW], 7)]
            /\ Apply(legacy_subb(ram, acc, reg, overflow_checks))
    /\ UNCHANGED pc

\* mcu insn_addc_a_rn, opcodes ADDC_A_R0 + rn
mcu_insn_addc_a_rn ==
    /\ Running /\ crate = "mcu"
    /\ \E rn \in Regs :
        /\ call' = [op |-> "ADDC", a |-> ram[SFR_ACC], b |-> ram[GPR_addr(ram, rn)],
                    c |-> get_bit(ram[SFR_PSW], 7)]
        /\ Apply(insn_addc_a_rn(ram, rn, overflow_checks))
    /\ UNCHANGED pc

\* mcu insn_add_a_const, opcode ADD A,#const
mcu_insn_add_a_const ==
    /\ Running /\ crate = "mcu"
    /\ \E arg0 \in ByteSamples :
        /\ call' = [op |-> "ADD", a |-> ram[SFR_ACC], b |-> arg0, c |-> 0]
        /\ Apply(insn_add_a_const(ram, arg0))
    /\ UNCHANGED pc

\* mcu insn_add_a_rn, opcodes ADD_A_R0 + rn
mcu_insn_add_a_rn ==
    /\ Running /\ crate = "mcu"
    /\ \E rn \in Regs :
        /\ call' = [op |-> "ADD_A_Rn", a |-> ram[SFR_ACC], b |-> rn, c |-> 0]
        /\ Apply(insn_add_a_rn(ram, rn))
    /\ UNCHANGED pc

\* mcu insn_add_a_rn_indirect, opcodes ADD_A_INDIRECT_R0 + rn
mcu_insn_add_a_rn_indirect ==
    /\ Running /\ crate = "mcu"
    /\ \E rn \in {0, 1} :
        /\ call' = [op |-> "ADD_A_@Ri", a |-> ram[SFR_ACC], b |-> rn, c |-> 0]
        /\ Apply(insn_add_a_rn_indirect(ram, rn))
    /\ UNCHANGED pc

\* mcu insn_addc_a_rn_indirect, opcodes ADDC_A_INDIRECT_R0 + rn
mcu_insn_addc_a_rn_indirect ==
    /\ Running /\ crate = "mcu"
    /\ \E rn \in {0, 1} :
        /\ call' = [op |-> "ADDC_A_@Ri", a |-> ram[SFR_ACC], b |-> rn,
                    c |-> get_bit(ram[SFR_PSW], 7)]
        /\ Apply(insn_addc_a_rn_indirect(ram, rn, overflow_checks))
    /\ UNCHANGED pc

NextArith ==
    \/ legacy_ADDC_A_Rn \/ legacy_SUBB_A_Rn \/ mcu_insn_addc_a_rn \/ mcu_insn_add_a_const
    \/ mcu_insn_add_a_rn \/ mcu_insn_add_a_rn_indirect \/ mcu_insn_addc_a_rn_indirect

SpecArith == InitArith /\ [][NextArith]_vars

PSW_CY == is_bit_set(ram[SFR_PSW], 7)
PSW_AC == is_bit_set(ram[SFR_PSW], 6)
PSW_OV == is_bit_set(ram[SFR_PSW], 2)

(***************************************************************************)
(* C2: for every accumulator a, operand b and incoming carry c, ADDC       *)
(* leaves ACC = (a + b + c) mod 256 (with c = 0, the result of ADD).       *)
(***************************************************************************)
C2_AddcResult ==
    (call.op = "ADDC" /\ ~panicked) =>
        ram[SFR_ACC] = (call.a + call.b + call.c) % 256

(***************************************************************************)
(* C3: after ADDC the flags are those of the full sum a + b + c:           *)
(* CY = (a+b+c >= 256), AC = ((a&0xF)+(b&0xF)+c >= 16), OV = carry out of  *)
(* bit 6 XOR carry out of bit 7; a flag whose condition is false is clear. *)
(***************************************************************************)
carry6(a, b, c) == (a % 128) + (b % 128) + c >= 128
carry7(a, b, c) == a + b + c >= 256

C3_AddcFlags ==
    (call.op = "ADDC" /\ ~panicked) =>
        /\ PSW_CY = carry7(call.a, call.b, call.c)
        /\ PSW_AC = ((call.a % 16) + (call.b % 16) + call.c >= 16)
        /\ PSW_OV = (carry6(call.a, call.b, call.c) # carry7(call.a, call.b, call.c))

(***************************************************************************)
(* C4: SUBB leaves ACC = (a - b - c) mod 256 and CY = 1 exactly when       *)
(* a < b + c, for all inputs, b = 0xFF with c = 1 included.                *)
(***************************************************************************)
C4_SubbResult ==
    (call.op = "SUBB" /\ ~panicked) =>
        /\ ram[SFR_ACC] = (call.a - call.b - call.c) % 256
        /\ PSW_CY = (call.a < call.b + call.c)

(***************************************************************************)
(* C5: after SUBB, AC is set exactly when (a & 0x0F) < (b & 0x0F) + c.     *)
(***************************************************************************)
C5_SubbAuxCarry ==
    (call.op = "SUBB" /\ ~panicked) =>
        PSW_AC = ((call.a % 16) < (call.b % 16) + call.c)

(***************************************************************************)
(* C6: after SUBB, OV is set exactly when signed(a) - signed(b) - c lies   *)
(* outside [-128, 127].                                                    *)
(***************************************************************************)
C6_SubbOverflow ==
    (call.op = "SUBB" /\ ~panicked) =>
        LET s == to_signed(call.a) - to_signed(call.b) - call.c
        IN  PSW_OV = (s < -128 \/ s > 127)

(***************************************************************************)
(* Bit addressing.                                                         *)
(***************************************************************************)
RECURSIVE BitAnd(_, _)
BitAnd(x, y) ==
    IF x = 0 \/ y = 0 THEN 0
    ELSE (x % 2) * (y % 2) + 2 * BitAnd(x \div 2, y \div 2)

\* BitAddr::is_bit_addressable / Addr8::is_bit_addressable / BitOps::is_bit_addressable
is_bit_addressable(x) == (x >= 32 /\ x < 48) \/ (x >= 128 /\ x % 8 = 0)

\* BitAddr::try_new: the byte it wraps, and whether it returns Ok
BitAddr_try_new(addr) ==
    LET byte == IF addr <= 127 THEN addr \div 8 + 32 ELSE addr - Pow2(addr % 8)
    IN  [ok |-> is_bit_addressable(byte), byte |-> byte]

\* BitAddr::zero
BitAddr_zero == [ok |-> TRUE, byte |-> 0]

\* BitAddr::bit: 1 << (self.0 % 8)
BitAddr_bit(byte) == Pow2(byte % 8)

\* mcu CPU::read_bit on a BitAddr wrapping byte
\* (read_bit without its is_bit_addressable guard)
read_bit_unchecked(mem, byte) ==
    LET bit == BitAddr_bit(byte)
    IN  [res |-> "Ok", val |-> IF BitAnd(mem[byte], bit) = bit THEN 1 ELSE 0]

read_bit(mem, byte) ==
    IF ~is_bit_addressable(byte)
    THEN [res |-> "InvalidBitAddr", val |-> 0]
    ELSE LET bit == BitAddr_bit(byte)
         IN  [res |-> "Ok", val |-> IF BitAnd(mem[byte], bit) = bit THEN 1 ELSE 0]

\* mcu CPU::write_bit: bits.set_bit(bit as usize, val) takes the mask as the
\* bit index; bit_field's set_bit asserts index < 8
write_bit(mem, byte, val) ==
    IF ~is_bit_addressable(byte)
    THEN Out(mem, "InvalidBitAddr")
    ELSE LET bit  == BitAddr_bit(byte)
             bits == mem[byte]
         IN  IF bit >= 8
             THEN Out(mem, "panic")
             ELSE Out(write(mem, byte, assign_bit(bits, bit, val)), "Ok")

\* legacy Memory::get_bit_internal: None is -1
get_bit_internal(mem, addr, bit) ==
    IF ~is_bit_addressable(addr) THEN -1 ELSE get_bit(mem[addr], bit)

\* legacy Memory::get_bit
Memory_get_bit(mem, bit_addr) ==
    LET bit == bit_addr % 8
    IN  IF bit_addr <= 127
        THEN get_bit_internal(mem, bit_addr \div 8 + 32, bit)
        ELSE get_bit_internal(mem, bit_addr - bit, bit)

\* the byte legacy Memory::get_bit hands to get_bit_internal
Memory_get_bit_byte(bit_addr) ==
    IF bit_addr <= 127 THEN bit_addr \div 8 + 32 ELSE bit_addr - (bit_addr % 8)

\* Addr16 += n: u16 addition, wrapping in release, panicking with overflow checks
JumpOut(mem, newpc, res) == [mem |-> mem, pc |-> newpc, res |-> res]

\* mcu insn_jb_bit_code; an operand of -1 is None
insn_jb_bit_code(mem, pc0, arg0, arg1, checks) ==
    LET pc1 == pc0 + 3
        t   == BitAddr_try_new(arg0)
        r   == read_bit(mem, t.byte)
        pc2 == IF r.val = 1 THEN (pc1 % 65536) + arg1 ELSE pc1 % 65536
    IN  IF arg0 = -1 THEN JumpOut(mem, pc0, "InstructionArg0Missing")
        ELSE IF arg1 = -1 THEN JumpOut(mem, pc0, "InstructionArg1Missing")
        ELSE IF pc1 > 65535 /\ checks THEN JumpOut(mem, pc0, "panic")
        ELSE IF ~t.ok THEN JumpOut(mem, pc1 % 65536, "InvalidBitAddr")
        ELSE IF r.res # "Ok" THEN JumpOut(mem, pc1 % 65536, r.res)
        ELSE IF pc2 > 65535 /\ checks THEN JumpOut(mem, pc1 % 65536, "panic")
        ELSE JumpOut(mem, pc2 % 65536, "JUMP")

\* legacy run_instruction, JB_BIT_CODE (want = 1) and JNB_BIT_CODE (want = 0)
legacy_jb(mem, pc0, arg0, arg1, want) ==
    LET pc1 == pc0 + 3
        bit == Memory_get_bit(mem, arg0)
    IN  IF bit = -1 THEN JumpOut(mem, pc1, "panic")
        ELSE JumpOut(mem, IF bit = want THEN pc1 + arg1 ELSE pc1, "Handled")

(***************************************************************************)
(* One bit access on a CPU whose internal data holds a pattern, and the    *)
(* read-back of a bit just written.                                        *)
(***************************************************************************)
BitPatterns == {0, 202}
RelSamples == {2, 249}

\* the bit-addressable bytes of the MCS-51: 0x20..0x2F and the SFRs at multiples of 8
BitAddressableSet == (32..47) \cup {x \in 128..248 : x % 8 = 0}

BitRam(p) ==
    [i \in 0..(MEMORY_RAM_SIZE - 1) |->
        IF i \in BitAddressableSet THEN (p + i) % 256 ELSE IF i = SFR_SP THEN 7 ELSE 0]

InitBit ==
    /\ crate \in {"legacy", "mcu"}
    /\ overflow_checks \in BOOLEAN
    /\ pc = 0
    /\ \E p \in BitPatterns : ram = BitRam(p)
    /\ panicked = FALSE
    /\ call = NoCall
    /\ ret = NoRet
    /\ nops = 0
    /\ initialized = TRUE
    /\ flash = ZeroFlash
    /\ halt = FALSE

Fresh == ~panicked /\ nops = 0

\* cpu.read_bit(BitAddr::try_new(b)?)? , or cpu.read_bit(BitAddr::zero()) with b = -1;
\* after a write_bit, the read-back of the bit written
mcu_read_bit ==
    /\ crate = "mcu" /\ ~panicked
    /\ \/ nops = 0
       \/ call.op = "write_bit" /\ ret.kind = "Ok"
    /\ \E b \in Byte \cup {-1} :
        LET t == IF b = -1 THEN BitAddr_zero ELSE BitAddr_try_new(b)
            r == IF t.ok THEN read_bit(ram, t.byte) ELSE [res |-> "InvalidBitAddr", val |-> 0]
        IN  /\ call.op = "write_bit" => b = call.b
            /\ call' = [op |-> "read_bit", a |-> t.byte, b |-> b, c |-> call.c]
            /\ ret' = [NoRet EXCEPT !.kind = r.res, !.val = r.val]
    /\ nops' = nops + 1
    /\ UNCHANGED <<halt, crate, overflow_checks, initialized, flash, pc, ram, panicked>>

\* cpu.write_bit(BitAddr::try_new(b)?, v)
mcu_write_bit ==
    /\ crate = "mcu" /\ Fresh
    /\ \E b \in Byte \cup {-1}, v \in BOOLEAN :
        LET t == IF b = -1 THEN BitAddr_zero ELSE BitAddr_try_new(b)
            o == IF t.ok THEN write_bit(ram, t.byte, v) ELSE Out(ram, "InvalidBitAddr")
        IN  /\ call' = [op |-> "write_bit", a |-> t.byte, b |-> b, c |-> IF v THEN 1 ELSE 0]
            /\ Apply(o)
    /\ UNCHANGED pc

mcu_insn_jb_bit_code ==
    /\ crate = "mcu" /\ Fresh
    /\ \E arg0 \in Byte, arg1 \in RelSamples :
        LET o == insn_jb_bit_code(ram, pc, arg0, arg1, overflow_checks)
        IN  /\ call' = [op |-> "JB", a |-> BitAddr_try_new(arg0).byte, b |-> arg0, c |-> arg1]
            /\ pc' = o.pc
            /\ Apply(Out(o.mem, o.res))

legacy_JB_BIT_CODE ==
    /\ crate = "legacy" /\ Fresh
    /\ \E arg0 \in Byte, arg1 \in RelSamples :
        LET o == legacy_jb(ram, pc, arg0, arg1, 1)
        IN  /\ call' = [op |-> "JB", a |-> Memory_get_bit_byte(arg0), b |-> arg0, c |-> arg1]
            /\ pc' = o.pc
            /\ Apply(Out(o.mem, o.res))

legacy_JNB_BIT_CODE ==
    /\ crate = "legacy" /\ Fresh
    /\ \E arg0 \in Byte, arg1 \in RelSamples :
        LET o == legacy_jb(ram, pc, arg0, arg1, 0)
        IN  /\ call' = [op |-> "JNB", a |-> Memory_get_bit_byte(arg0), b |-> arg0, c |-> arg1]
            /\ pc' = o.pc
            /\ Apply(Out(o.mem, o.res))

NextBit ==
    \/ mcu_read_bit
    \/ mcu_write_bit
    \/ mcu_insn_jb_bit_code
    \/ legacy_JB_BIT_CODE
    \/ legacy_JNB_BIT_CODE

SpecBit == InitBit /\ [][NextBit]_vars

\* the decoding of a bit address b: its byte and its bit index
DecodedByte(b) == IF b <= 127 THEN b \div 8 + 32 ELSE b - (b % 8)
DecodedBit(b) == b % 8

(***************************************************************************)
(* C7: a bit address b addresses bit b mod 8 of byte b/8 + 0x20 when       *)
(* b <= 127 and of byte b - (b mod 8) when b >= 128: a bit read that       *)
(* succeeds returns that bit, and a taken JB/JNB tested that bit.          *)
(***************************************************************************)
C7_BitDecode ==
    /\ (call.op = "read_bit" /\ call.b \in Byte /\ ret.kind = "Ok") =>
            ret.val = get_bit(ram[DecodedByte(call.b)], DecodedBit(call.b))
    /\ (call.op = "JB" /\ ret.kind \in {"JUMP", "Handled"}) =>
            (pc = 3 + call.c) = (get_bit(ram[DecodedByte(call.b)], DecodedBit(call.b)) = 1)
    /\ (call.op = "JNB" /\ ret.kind \in {"JUMP", "Handled"}) =>
            (pc = 3 + call.c) = (get_bit(ram[DecodedByte(call.b)], DecodedBit(call.b)) = 0)

(***************************************************************************)
(* C8: after write_bit(b, v) succeeds, a following read_bit(b) returns v,  *)
(* and the write changed no other bit of the underlying byte and no other  *)
(* byte of the internal data.                                              *)
(***************************************************************************)
OnlyBitChanged(old, new, b) ==
    /\ \A i \in DOMAIN old : i # DecodedByte(b) => new[i] = old[i]
    /\ \A k \in 0..7 : k # DecodedBit(b) =>
            get_bit(new[DecodedByte(b)], k) = get_bit(old[DecodedByte(b)], k)

C8_BitRoundTrip ==
    [][/\ (call'.op = "write_bit" /\ call'.b \in Byte /\ ret'.kind = "Ok") =>
            OnlyBitChanged(ram, ram', call'.b)
       /\ (call.op = "write_bit" /\ call'.op = "read_bit" /\ ret'.kind = "Ok") =>
            ret'.val = call'.c]_vars

(***************************************************************************)
(* C9: a bit access whose decoded byte is outside [0x20,0x2F] and          *)
(* {0x80,0x88,...,0xF8} returns InvalidBitAddr; it does not panic and it    *)
(* leaves the internal data as it was.                                     *)
(***************************************************************************)
BitAccess == {"read_bit", "write_bit", "JB", "JNB"}

C9_InvalidBitAddr ==
    [][(call'.op \in BitAccess /\ call'.a \notin BitAddressableSet) =>
            (ret'.kind = "InvalidBitAddr" /\ ~panicked' /\ ram' = ram)]_vars

\* JB on bit address 0x80, which the mcu decodes to byte 0x7F, returned InvalidBitAddr
C9_Witness ==
    /\ crate = "mcu" /\ call.op = "JB" /\ call.b = 128 /\ call.a = 127
    /\ ret.kind = "InvalidBitAddr" /\ ~panicked

(***************************************************************************)
(* Register access: set and get registers under each register bank.        *)
(***************************************************************************)
BankPsw == {0, 8, 16, 24}
GprValues == {85, 170}

GprRam(psw) ==
    [i \in 0..(MEMORY_RAM_SIZE - 1) |->
        IF i < 32 THEN 100 + i
        ELSE IF i = SFR_PSW THEN psw
        ELSE IF i = SFR_SP THEN 7
        ELSE 0]

InitGpr ==
    /\ crate \in {"legacy", "mcu"}
    /\ overflow_checks \in BOOLEAN
    /\ pc = 0
    /\ \E psw \in BankPsw : ram = GprRam(psw)
    /\ panicked = FALSE
    /\ call = NoCall
    /\ ret = NoRet
    /\ nops = 0
    /\ initialized = TRUE
    /\ flash = ZeroFlash
    /\ halt = FALSE

\* legacy Memory::set_gpr_reg(reg, val)
legacy_set_gpr_reg ==
    /\ crate = "legacy" /\ Running
    /\ \E reg \in Regs, val \in GprValues :
        /\ call' = [op |-> "set_gpr", a |-> reg, b |-> val, c |-> 0]
        /\ Apply(Out(set_gpr_reg(ram, reg, val), "Ok"))
    /\ UNCHANGED pc

\* legacy Memory::get_gpr_reg(reg)
legacy_get_gpr_reg ==
    /\ crate = "legacy" /\ Running
    /\ \E reg \in Regs :
        /\ call' = [op |-> "get_gpr", a |-> reg, b |-> 0, c |-> 0]
        /\ ret' = [NoRet EXCEPT !.kind = "Ok", !.val = get_gpr_reg(ram, reg)]
    /\ nops' = nops + 1
    /\ UNCHANGED <<halt, crate, overflow_checks, initialized, flash, pc, ram, panicked>>

\* mcu: cpu.read(GPR::from(rn).addr()), the register read of every Rn handler
mcu_read_gpr ==
    /\ crate = "mcu" /\ Running
    /\ \E rn \in Regs :
        /\ call' = [op |-> "get_gpr", a |-> rn, b |-> 0, c |-> 0]
        /\ ret' = [NoRet EXCEPT !.kind = "Ok", !.val = ram[GPR_addr(ram, rn)]]
    /\ nops' = nops + 1
    /\ UNCHANGED <<halt, crate, overflow_checks, initialized, flash, pc, ram, panicked>>

NextGpr == legacy_set_gpr_reg \/ legacy_get_gpr_reg \/ mcu_read_gpr

SpecGpr == InitGpr /\ [][NextGpr]_vars

(***************************************************************************)
(* C10: get_gpr(n) and set_gpr(n, v) access the cell idata[8*bank + n],    *)
(* bank = ((PSW>>4)&1)<<1 | ((PSW>>3)&1); so set_gpr(n, v) changes that     *)
(* cell alone and leaves every other register as it was.                   *)
(***************************************************************************)
Bank(psw) == 2 * ((psw \div 16) % 2) + ((psw \div 8) % 2)
BankedCell(mem, n) == 8 * Bank(mem[SFR_PSW]) + n

C10_GprBanked ==
    [][/\ call'.op = "set_gpr" =>
            ram' = [ram EXCEPT ![BankedCell(ram, call'.a)] = call'.b]
       /\ call'.op = "get_gpr" =>
            ret'.val = ram[BankedCell(ram, call'.a)]]_vars

(***************************************************************************)
(* Direct access to the internal data.  Both crates index an array of      *)
(* MEMORY_RAM_SIZE cells with the 8-bit address; an index the array does   *)
(* not hold panics (index out of bounds) in every build.                   *)
(***************************************************************************)
\* Memory::write / CPU::write: self.ram[addr as usize] = val
CPU_write(mem, addr, val) ==
    IF addr < MEMORY_RAM_SIZE THEN Out(write(mem, addr, val), "Ok") ELSE Out(mem, "panic")

\* Memory::read / CPU::read: self.ram[addr as usize]
CPU_read(mem, addr) ==
    IF addr < MEMORY_RAM_SIZE
    THEN [res |-> "Ok", val |-> mem[addr]]
    ELSE [res |-> "panic", val |-> 0]

AddrSamples == {0, 7, 32, 127, 128, 129, 224, 254, 255}
ValueSamples == {90, 165}

\* Memory::init / CPU::init: zeroed cells, SP = 0x07
InitRam == [ZeroRam EXCEPT ![SFR_SP] = 7]

InitMem ==
    /\ crate \in {"legacy", "mcu"}
    /\ overflow_checks \in BOOLEAN
    /\ pc = 0
    /\ ram = InitRam
    /\ panicked = FALSE
    /\ call = NoCall
    /\ ret = NoRet
    /\ nops = 0
    /\ initialized = TRUE
    /\ flash = ZeroFlash
    /\ halt = FALSE

\* write(a, v)
mem_write ==
    /\ Running
    /\ \E a \in AddrSamples, v \in ValueSamples :
        /\ call' = [op |-> "write", a |-> a, b |-> v, c |-> 0]
        /\ Apply(CPU_write(ram, a, v))
    /\ UNCHANGED pc

\* read(a)
mem_read ==
    /\ Running
    /\ \E a \in AddrSamples :
        LET r == CPU_read(ram, a)
        IN  /\ call' = [op |-> "read", a |-> a, b |-> call.b, c |-> call.a]
            /\ ret' = [NoRet EXCEPT !.kind = r.res, !.val = r.val]
            /\ panicked' = (r.res = "panic")
    /\ nops' = nops + 1
    /\ UNCHANGED <<halt, crate, overflow_checks, initialized, flash, pc, ram>>

NextMem == mem_write \/ mem_read

SpecMem == InitMem /\ [][NextMem]_vars

(***************************************************************************)
(* C11: the internal data has 256 cells: for every address a in 0..255     *)
(* (0xFF included) and byte v, write(a, v) succeeds and changes cell a     *)
(* alone, and a read(a) that follows returns v.                            *)
(***************************************************************************)
C11_WriteRead ==
    [][/\ call'.op = "write" =>
            /\ ~panicked' /\ ret'.kind = "Ok"
            /\ \A i \in DOMAIN ram : i # call'.a => ram'[i] = ram[i]
       /\ (call.op = "write" /\ call'.op = "read" /\ call'.a = call.a) =>
            (ret'.kind = "Ok" /\ ret'.val = call.b)]_vars

(***************************************************************************)
(* Control flow and the stack.  Each handler is applied once to a CPU      *)
(* whose PC, SP, PSW and data cells are drawn from samples, as the unit    *)
(* tests of the repository do (set the state, run one instruction).        *)
(***************************************************************************)
BitOr(x, y) == x + y - BitAnd(x, y)

\* (the page computation with the mask 0xFF00 in place of 0xF800)
ajmp_target_ff00(pc1, op, arg0) ==
    BitOr(BitOr(BitAnd(pc1, 65280), BitAnd(op, 224) * 8), arg0)

\* pc &= 0xF800; pc |= ((op & 0xe0) as u16) << 3; pc |= arg0 as u16
ajmp_target(pc1, op, arg0) ==
    BitOr(BitOr(BitAnd(pc1, 63488), BitAnd(op, 224) * 8), arg0)

\* sp += 1; write(sp, pc & 0x00FF); sp += 1; write(sp, (pc & 0xFF00) >> 8);
\* write(SP, sp): u8 additions, bounds-checked writes
push_pc(mem, pc1, checks) ==
    LET sp0 == mem[SFR_SP]
        sp1 == (sp0 + 1) % 256
        w1  == CPU_write(mem, sp1, pc1 % 256)
        sp2 == (sp1 + 1) % 256
        w2  == CPU_write(w1.mem, sp2, (pc1 \div 256) % 256)
    IN  IF sp0 + 1 > 255 /\ checks THEN Out(mem, "panic")
        ELSE IF w1.res = "panic" THEN Out(mem, "panic")
        ELSE IF sp1 + 1 > 255 /\ checks THEN Out(w1.mem, "panic")
        ELSE IF w2.res = "panic" THEN Out(w1.mem, "panic")
        ELSE Out(write(w2.mem, SFR_SP, sp2), "Ok")

\* mcu insn_ajmp (pc: u16); arg0 = -1 is None
insn_ajmp(mem, pc0, op, arg0, checks) ==
    IF arg0 = -1 THEN JumpOut(mem, pc0, "InstructionArg0Missing")
    ELSE IF pc0 + 2 > 65535 /\ checks THEN JumpOut(mem, pc0, "panic")
    ELSE JumpOut(mem, ajmp_target((pc0 + 2) % 65536, op, arg0), "JUMP")

\* mcu insn_acall
insn_acall(mem, pc0, op, arg0, checks) ==
    LET pc1 == (pc0 + 2) % 65536
        o   == push_pc(mem, pc1, checks)
    IN  IF arg0 = -1 THEN JumpOut(mem, pc0, "InstructionArg0Missing")
        ELSE IF pc0 + 2 > 65535 /\ checks THEN JumpOut(mem, pc0, "panic")
        ELSE IF o.res = "panic" THEN JumpOut(o.mem, pc1, "panic")
        ELSE JumpOut(o.mem, ajmp_target(pc1, op, arg0), "JUMP")

\* mcu insn_ljmp: pc = addr16(arg0, arg1)
insn_ljmp(mem, pc0, arg0, arg1) ==
    IF arg0 = -1 THEN JumpOut(mem, pc0, "InstructionArg0Missing")
    ELSE IF arg1 = -1 THEN JumpOut(mem, pc0, "InstructionArg1Missing")
    ELSE JumpOut(mem, arg0 * 256 + arg1, "JUMP")

PcSamples == {0, 256, 291, 2046, 63487, 65533}
SpSamples == {0, 1, 7, 11, 127, 128, 253, 254, 255}
DataSamples == {0, 1, 2}
CyPsw == {0, 128}
ArgSamples == {0, 1, 69, 249}
RelBytes == {1, 2, 127, 128, 249}
BitArgSamples == {0, 1, 129, 130}
DirectSamples == {64, 129, 130, 131, 255}
AjmpOps == {1, 33, 65, 97, 129, 161, 193, 225}
AcallOps == {17, 49, 81, 113, 145, 177, 209, 241}

\* cells R0..R7 of bank 0 and 0x40, 0x41 hold d; the other cells hold a
\* value that tells them apart
JumpRam(sp, psw, d) ==
    [i \in 0..(MEMORY_RAM_SIZE - 1) |->
        IF i = SFR_SP THEN sp
        ELSE IF i = SFR_PSW THEN psw
        ELSE IF i < 8 \/ i = 64 \/ i = 65 THEN d
        ELSE (3 * i + 5) % 256]

InitJump ==
    /\ crate \in {"legacy", "mcu"}
    /\ overflow_checks \in BOOLEAN
    /\ pc \in PcSamples
    /\ \E sp \in SpSamples, psw \in CyPsw, d \in DataSamples : ram = JumpRam(sp, psw, d)
    /\ panicked = FALSE
    /\ call = NoCall
    /\ ret = NoRet
    /\ nops = 0
    /\ initialized = TRUE
    /\ flash = ZeroFlash
    /\ halt = FALSE

\* legacy run_instruction, AJMP1..AJMP8 (pc: usize)
legacy_AJMP ==
    /\ crate = "legacy" /\ Fresh
    /\ \E op \in AjmpOps, arg0 \in ArgSamples :
        /\ call' = [op |-> "AJMP", a |-> op, b |-> arg0, c |-> 0]
        /\ pc' = ajmp_target(pc + 2, op, arg0)
        /\ Apply(Out(ram, "Handled"))

\* mcu insn_ajmp (pc: u16); arg0 = -1 is None
mcu_insn_ajmp ==
    /\ crate = "mcu" /\ Fresh
    /\ \E op \in AjmpOps, arg0 \in ArgSamples \cup {-1} :
        LET o == insn_ajmp(ram, pc, op, arg0, overflow_checks)
        IN  /\ call' = [op |-> "AJMP", a |-> op, b |-> arg0, c |-> 0]
            /\ pc' = o.pc
            /\ Apply(Out(o.mem, o.res))

\* legacy run_instruction, ACALL1..ACALL8; the record keeps the PC (call.c)
\* and the stack pointer (ret.val) the instruction started from
legacy_ACALL ==
    /\ crate = "legacy" /\ Fresh
    /\ \E op \in AcallOps, arg0 \in ArgSamples :
        LET o == push_pc(ram, pc + 2, overflow_checks)
        IN  /\ call' = [op |-> "ACALL", a |-> op, b |-> arg0, c |-> pc]
            /\ pc' = IF o.res = "panic" THEN pc + 2 ELSE ajmp_target(pc + 2, op, arg0)
            /\ ram' = o.mem
            /\ panicked' = (o.res = "panic")
            /\ ret' = [NoRet EXCEPT !.kind = IF o.res = "panic" THEN "panic" ELSE "Handled",
                                    !.val = ram[SFR_SP]]
            /\ nops' = nops + 1
            /\ UNCHANGED <<halt, crate, overflow_checks, initialized, flash>>

\* mcu insn_acall
mcu_insn_acall ==
    /\ crate = "mcu" /\ Fresh
    /\ \E op \in AcallOps, arg0 \in ArgSamples \cup {-1} :
        LET o == insn_acall(ram, pc, op, arg0, overflow_checks)
        IN  /\ call' = [op |-> "ACALL", a |-> op, b |-> arg0, c |-> 0]
            /\ pc' = o.pc
            /\ Apply(Out(o.mem, o.res))

\* legacy run_instruction, RET.  pc is a usize; the model writes a usize value
\* of 2^64 - n as -n
legacy_RET ==
    /\ crate = "legacy"
    /\ Fresh \/ (~panicked /\ nops = 1 /\ call.op = "ACALL")
    /\ LET sp0 == ram[SFR_SP]
           r1  == CPU_read(ram, sp0)
           sp1 == (sp0 - 1) % 256
           r2  == CPU_read(ram, sp1)
           sp2 == (sp1 - 1) % 256
       IN  /\ call' = [op |-> "RET", a |-> sp0, b |-> 0, c |-> 0]
           /\ IF r1.res = "panic"
              THEN pc' = pc /\ Apply(Out(ram, "panic"))
              ELSE IF (sp0 - 1 < 0 /\ overflow_checks) \/ r2.res = "panic"
              THEN pc' = r1.val * 256 /\ Apply(Out(ram, "panic"))
              ELSE IF sp1 - 1 < 0 /\ overflow_checks
              THEN pc' = r1.val * 256 + r2.val /\ Apply(Out(ram, "panic"))
              ELSE /\ pc' = r1.val * 256 + r2.val
                   /\ Apply(Out(write(ram, SFR_SP, sp2), "Handled"))

\* legacy run_instruction, SJMP: usize::wrapping_add(pc, arg0.to_signed() as usize)
legacy_SJMP ==
    /\ crate = "legacy" /\ Fresh
    /\ \E arg0 \in RelBytes :
        /\ call' = [op |-> "SJMP", a |-> 0, b |-> 0, c |-> arg0]
        /\ pc' = IF is_bit_set(arg0, 7) THEN pc + 2 + to_signed(arg0) ELSE pc + 2 + arg0
        /\ Apply(Out(ram, "Handled"))

\* legacy run_instruction, JNC
legacy_JNC ==
    /\ crate = "legacy" /\ Fresh
    /\ \E arg0 \in RelBytes :
        /\ call' = [op |-> "JNC", a |-> 0, b |-> 0, c |-> arg0]
        /\ pc' = IF ~is_bit_set(ram[SFR_PSW], 7) THEN pc + 2 + arg0 ELSE pc + 2
        /\ Apply(Out(ram, "Handled"))

\* legacy run_instruction, JB_BIT_CODE / JNB_BIT_CODE at any PC
legacy_JB_JNB ==
    /\ crate = "legacy" /\ Fresh
    /\ \E arg0 \in BitArgSamples, arg1 \in RelBytes, want \in {0, 1} :
        LET o == legacy_jb(ram, pc, arg0, arg1, want)
        IN  /\ call' = [op |-> IF want = 1 THEN "JB" ELSE "JNB", a |-> Memory_get_bit_byte(arg0),
                        b |-> arg0, c |-> arg1]
            /\ pc' = o.pc
            /\ Apply(Out(o.mem, o.res))

\* mcu insn_jb_bit_code at any PC
mcu_jb_bit_code ==
    /\ crate = "mcu" /\ Fresh
    /\ \E arg0 \in BitArgSamples, arg1 \in RelBytes :
        LET o == insn_jb_bit_code(ram, pc, arg0, arg1, overflow_checks)
        IN  /\ call' = [op |-> "JB", a |-> BitAddr_try_new(arg0).byte, b |-> arg0, c |-> arg1]
            /\ pc' = o.pc
            /\ Apply(Out(o.mem, o.res))

\* legacy run_instruction, CJNE_A_DATA_CODE
legacy_CJNE_A_DATA_CODE ==
    /\ crate = "legacy" /\ Fresh
    /\ \E arg0 \in DataSamples, arg1 \in RelBytes :
        LET acc == ram[SFR_ACC]
            psw == ram[SFR_PSW]
        IN  /\ call' = [op |-> "CJNE", a |-> arg0, b |-> acc, c |-> arg1]
            /\ pc' = IF acc # arg0 THEN pc + 3 + arg1 ELSE pc + 3
            /\ Apply(Out(write(ram, SFR_PSW, assign_bit(psw, 7, acc < arg0)), "Handled"))

\* legacy run_instruction, CJNE_R0_CONST_CODE..CJNE_R7_CONST_CODE
legacy_CJNE_Rn_CONST_CODE ==
    /\ crate = "legacy" /\ Fresh
    /\ \E rn \in Regs, arg0 \in DataSamples, arg1 \in RelBytes :
        LET data == get_gpr_reg(ram, rn)
            psw  == ram[SFR_PSW]
        IN  /\ call' = [op |-> "CJNE", a |-> arg0, b |-> data, c |-> arg1]
            /\ pc' = IF data # arg0 THEN pc + 3 + arg1 ELSE pc + 3
            /\ Apply(Out(write(ram, SFR_PSW, assign_bit(psw, 7, data < arg0)), "Handled"))

\* legacy run_instruction, DJNZ_DATA_CODE
legacy_DJNZ_DATA_CODE ==
    /\ crate = "legacy" /\ Fresh
    /\ \E arg0 \in DirectSamples, arg1 \in RelBytes :
        LET r == CPU_read(ram, arg0)
        IN  /\ call' = [op |-> "DJNZ", a |-> arg0, b |-> r.val, c |-> arg1]
            /\ IF r.res = "panic"
               THEN pc' = pc + 2 /\ Apply(Out(ram, "panic"))
               ELSE IF r.val > 0
               THEN pc' = pc + 2 + arg1 /\ Apply(Out(write(ram, arg0, r.val - 1), "Handled"))
               ELSE pc' = pc + 2 /\ Apply(Out(ram, "Handled"))

\* legacy run_instruction, DJNZ_R0_CODE..DJNZ_R7_CODE
legacy_DJNZ_Rn_CODE ==
    /\ crate = "legacy" /\ Fresh
    /\ \E rn \in Regs, arg1 \in RelBytes :
        LET data == get_gpr_reg(ram, rn)
        IN  /\ call' = [op |-> "DJNZ", a |-> gpr_cell(ram, rn), b |-> data, c |-> arg1]
            /\ IF data > 0
               THEN pc' = pc + 2 + arg1 /\ Apply(Out(set_gpr_reg(ram, rn, data - 1), "Handled"))
               ELSE pc' = pc + 2 /\ Apply(Out(ram, "Handled"))

\* legacy run_instruction, PUSH_DATA
legacy_PUSH_DATA ==
    /\ crate = "legacy" /\ Fresh
    /\ \E arg0 \in DirectSamples :
        LET sp0  == ram[SFR_SP]
            sp   == (sp0 + 1) % 256
            mem1 == write(ram, SFR_SP, sp)
            r    == CPU_read(mem1, arg0)
            w    == CPU_write(mem1, sp, r.val)
        IN  /\ call' = [op |-> "PUSH", a |-> arg0, b |-> 0, c |-> 0]
            /\ IF sp0 + 1 > 255 /\ overflow_checks THEN Apply(Out(ram, "panic"))
               ELSE IF r.res = "panic" \/ w.res = "panic" THEN Apply(Out(mem1, "panic"))
               ELSE Apply(Out(w.mem, "Advance"))
    /\ UNCHANGED pc

\* legacy run_instruction, POP_DATA
legacy_POP_DATA ==
    /\ crate = "legacy" /\ Fresh
    /\ \E arg0 \in DirectSamples :
        LET sp   == ram[SFR_SP]
            r    == CPU_read(ram, sp)
            mem1 == write(ram, SFR_SP, (sp - 1) % 256)
            w    == CPU_write(mem1, arg0, r.val)
        IN  /\ call' = [op |-> "POP", a |-> arg0, b |-> 0, c |-> 0]
            /\ IF r.res = "panic" THEN Apply(Out(ram, "panic"))
               ELSE IF sp - 1 < 0 /\ overflow_checks THEN Apply(Out(ram, "panic"))
               ELSE IF w.res = "panic" THEN Apply(Out(mem1, "panic"))
               ELSE Apply(Out(w.mem, "Advance"))
    /\ UNCHANGED pc

NextJump ==
    \/ legacy_AJMP
    \/ mcu_insn_ajmp
    \/ legacy_ACALL
    \/ mcu_insn_acall
    \/ legacy_RET
    \/ legacy_SJMP
    \/ legacy_JNC
    \/ legacy_JB_JNB
    \/ mcu_jb_bit_code
    \/ legacy_CJNE_A_DATA_CODE
    \/ legacy_CJNE_Rn_CONST_CODE
    \/ legacy_DJNZ_DATA_CODE
    \/ legacy_DJNZ_Rn_CODE
    \/ legacy_PUSH_DATA
    \/ legacy_POP_DATA

SpecJump == InitJump /\ [][NextJump]_vars

(***************************************************************************)
(* C12: for every AJMP opcode op, operand byte arg0 and starting PC P,     *)
(* AJMP sets PC to ((P+2) & 0xF800) | ((op & 0xE0) << 3) | arg0, so the    *)
(* upper 5 bits of the new PC are those of P+2; SP and every memory cell  *)
(* stay as they were.                                                      *)
(***************************************************************************)
C12_Ajmp ==
    [][(call'.op = "AJMP" /\ call'.b \in Byte) =>
            /\ ~panicked'
            /\ pc' = ((pc + 2) \div 2048) * 2048 + (call'.a \div 32) * 256 + call'.b
            /\ pc' \div 2048 = (pc + 2) \div 2048
            /\ ram' = ram]_vars

\* AJMP (op 0x41, arg 0x45) was executed at 0x07FE, the last two bytes of page 0:
\* the target is in page 1
C12_Witness ==
    /\ call = [op |-> "AJMP", a |-> 65, b |-> 69, c |-> 0]
    /\ pc = 2048 + 512 + 69
    /\ ~panicked

(***************************************************************************)
(* C13: ACALL executed at PC = P with stack pointer S writes the low byte  *)
(* of P+2 to idata[S+1] and the high byte to idata[S+2], sets SP = S+2 and *)
(* sets PC to ((P+2) & 0xF800) | ((op & 0xE0) << 3) | arg0.                *)
(***************************************************************************)
C13_Acall ==
    [][(call'.op = "ACALL" /\ call'.b \in Byte) =>
            LET S == ram[SFR_SP]
            IN  /\ ~panicked'
                /\ S + 2 \in DOMAIN ram'
                /\ ram'[S + 1] = (pc + 2) % 256
                /\ ram'[S + 2] = (pc + 2) \div 256
                /\ ram'[SFR_SP] = S + 2
                /\ pc' = ((pc + 2) \div 2048) * 2048 + (call'.a \div 32) * 256 + call'.b]_vars

(***************************************************************************)
(* C14: RET executed with stack pointer S sets PC = (idata[S] << 8) |      *)
(* idata[S-1] and SP = S - 2 (an 8-bit value), and changes no other idata  *)
(* cell.                                                                   *)
(***************************************************************************)
C14_Ret ==
    [][call'.op = "RET" =>
            LET S == ram[SFR_SP]
            IN  /\ ~panicked'
                /\ S \in DOMAIN ram /\ S - 1 \in DOMAIN ram
                /\ pc' = ram[S] * 256 + ram[S - 1]
                /\ ram' = [ram EXCEPT ![SFR_SP] = (S - 2) % 256]]_vars

(***************************************************************************)
(* C15: for every PC P and operand byte r, SJMP sets PC to                 *)
(* (P + 2 + signed(r)) mod 65536, signed(r) the two's-complement value of  *)
(* r in [-128, 127].                                                       *)
(***************************************************************************)
signed(r) == IF r < 128 THEN r ELSE r - 256

C15_Sjmp ==
    [][call'.op = "SJMP" => pc' = (pc + 2 + signed(call'.c)) % 65536]_vars

(***************************************************************************)
(* C16: a conditional relative jump (JNC, JB, JNB, CJNE, DJNZ) executed at *)
(* PC P with relative operand r leaves PC = P + length + signed(r) when    *)
(* the branch is taken and PC = P + length when it is not: never another   *)
(* value, so r >= 0x80 jumps backward.                                     *)
(***************************************************************************)
Length(op) == IF op \in {"JB", "JNB", "CJNE"} THEN 3 ELSE 2

C16_RelativeJumps ==
    [][(call'.op \in {"JNC", "JB", "JNB", "CJNE", "DJNZ"} /\ ret'.kind \in {"Handled", "JUMP"}) =>
            \/ pc' = pc + Length(call'.op)
            \/ pc' = pc + Length(call'.op) + signed(call'.c)]_vars

(***************************************************************************)
(* C17: JB bit,rel takes its branch exactly when bit b mod 8 of the byte   *)
(* decoded from the bit address b is 1, JNB exactly when it is 0; a branch *)
(* not taken leaves PC = P + 3; neither instruction modifies idata.        *)
(***************************************************************************)
C17_BitJumps ==
    [][call'.op \in {"JB", "JNB"} =>
            LET bit  == get_bit(ram[DecodedByte(call'.b)], DecodedBit(call'.b))
                want == IF call'.op = "JB" THEN 1 ELSE 0
            IN  /\ ~panicked'
                /\ (pc' # pc + 3) = (bit = want)
                /\ ram' = ram]_vars

(***************************************************************************)
(* C18: DJNZ always decrements its operand modulo 256 (0x00 becomes 0xFF)  *)
(* and takes the branch exactly when the decremented value is nonzero      *)
(* (0x01 becomes 0x00 and the branch is not taken).                        *)
(***************************************************************************)
C18_Djnz ==
    [][call'.op = "DJNZ" =>
            LET cell == call'.a
            IN  /\ ~panicked'
                /\ cell \in DOMAIN ram
                /\ ram'[cell] = (ram[cell] - 1) % 256
                /\ (pc' # pc + 2) = ((ram[cell] - 1) % 256 # 0)]_vars

(***************************************************************************)
(* C19: PUSH direct sets SP to SP+1 and then stores idata[direct] at       *)
(* idata[SP]; POP direct reads v = idata[SP], sets SP to SP-1 and then     *)
(* writes v to idata[direct], so POP with direct = SP leaves SP = v.  SP   *)
(* is an 8-bit value.                                                      *)
(***************************************************************************)
C19_PushPop ==
    [][/\ call'.op = "PUSH" =>
            LET S  == (ram[SFR_SP] + 1) % 256
                m1 == [ram EXCEPT ![SFR_SP] = S]
            IN  /\ ~panicked'
                /\ S \in DOMAIN ram /\ call'.a \in DOMAIN ram
                /\ ram' = [m1 EXCEPT ![S] = m1[call'.a]]
       /\ call'.op = "POP" =>
            LET S  == ram[SFR_SP]
                m1 == [ram EXCEPT ![SFR_SP] = (S - 1) % 256]
            IN  /\ ~panicked'
                /\ S \in DOMAIN ram /\ call'.a \in DOMAIN ram
                /\ ram' = [m1 EXCEPT ![call'.a] = ram[S]]
                /\ call'.a = SFR_SP => ram'[SFR_SP] = ram[S]]_vars

(***************************************************************************)
(* The mcu CPU: default, init, reset and cycle.  The instruction table     *)
(* (instructions/instruction.rs) is modelled from the specification, its    *)
(* byte lengths and its dispatch as the specification gives them: every    *)
(* opcode has a length in {1,2,3}, and an opcode without an implementation *)
(* ends in UnimplementedInstruction.                                       *)
(***************************************************************************)
MaxCycles == 5

\* Instruction::bytes
bytes(op) ==
    IF op \in AjmpOps \cup AcallOps THEN 2
    ELSE IF op \in {2, 32} THEN 3
    ELSE 1

\* InstructionTable::get_handler(&insn), applied
handler(mem, pc0, op, arg0, arg1, checks) ==
    IF op = 0 THEN JumpOut(mem, pc0, "ADVANCE")
    ELSE IF op \in AjmpOps THEN insn_ajmp(mem, pc0, op, arg0, checks)
    ELSE IF op \in AcallOps THEN insn_acall(mem, pc0, op, arg0, checks)
    ELSE IF op = 2 THEN insn_ljmp(mem, pc0, arg0, arg1)
    ELSE IF op = 32 THEN insn_jb_bit_code(mem, pc0, arg0, arg1, checks)
    ELSE JumpOut(mem, pc0, "UnimplementedInstruction")

\* self.flash[i]
flash_at(f, i) == IF i \in DOMAIN f THEN f[i] ELSE 0

\* CPU::cycle once initialized is known to be true: fetch, operands, handler,
\* PC disposition
fetch_execute(f, mem, pc0, checks) ==
    LET op         == flash_at(f, pc0)
        insn_bytes == bytes(op)
        arg0       == IF insn_bytes \in {1, 2} THEN flash_at(f, pc0 + 1) ELSE -1
        arg1       == IF insn_bytes = 2 /\ pc0 + 2 < MEMORY_RAM_SIZE THEN mem[pc0 + 2] ELSE -1
        h          == handler(mem, pc0, op, arg0, arg1, checks)
    IN  IF pc0 >= MEMORY_FLASH_SIZE THEN JumpOut(mem, pc0, "panic")
        ELSE IF insn_bytes \in {1, 2} /\ pc0 + 1 >= MEMORY_FLASH_SIZE THEN JumpOut(mem, pc0, "panic")
        ELSE IF insn_bytes = 2 /\ pc0 + 2 >= MEMORY_RAM_SIZE THEN JumpOut(mem, pc0, "panic")
        ELSE IF h.res = "ADVANCE"
        THEN IF h.pc + insn_bytes > 65535 /\ checks
             THEN JumpOut(h.mem, h.pc, "panic")
             ELSE JumpOut(h.mem, (h.pc + insn_bytes) % 65536, "Ok")
        ELSE IF h.res = "JUMP" THEN JumpOut(h.mem, h.pc, "Ok")
        ELSE h

\* (cycle without the test of initialized)
cycle_unguarded(initd, f, mem, pc0, checks) == fetch_execute(f, mem, pc0, checks)

\* CPU::cycle
cycle(initd, f, mem, pc0, checks) ==
    IF ~initd THEN JumpOut(mem, pc0, "UninitializedCPU")
    ELSE fetch_execute(f, mem, pc0, checks)

\* code images: the bytes the loader leaves in flash
Programs ==
    { (0 :> 0) @@ (1 :> 0) @@ (2 :> 1) @@ (3 :> 0),
      (0 :> 17) @@ (1 :> 4) @@ (4 :> 2) @@ (5 :> 0) @@ (6 :> 0),
      (0 :> 0) @@ (1 :> 32) @@ (2 :> 0) @@ (3 :> 2),
      (0 :> 1) @@ (1 :> 253) @@ (253 :> 1) @@ (254 :> 0),
      (0 :> 165) }

\* the cells CPU::init writes after zeroing the internal data
InitSfr ==
    (188 :> 248) @@ (196 :> 255) @@ (195 :> 255) @@ (157 :> 2) @@ (156 :> 2)
        @@ (SFR_SP :> 7) @@ (228 :> 1) @@ (175 :> 32)

\* CPU::default
CPU_default ==
    /\ crate = "mcu"
    /\ overflow_checks \in BOOLEAN
    /\ pc = 0
    /\ ram = ZeroRam
    /\ panicked = FALSE
    /\ call = NoCall
    /\ ret = NoRet
    /\ nops = 0
    /\ initialized = FALSE
    /\ flash = ZeroFlash
    /\ halt = FALSE

Cycling == ~panicked /\ nops < MaxCycles

\* CPU::init(file): a file that cannot be read or decoded panics (unwrap)
CPU_init ==
    /\ Cycling
    /\ \E image \in Programs, readable \in BOOLEAN :
        /\ call' = [op |-> "init", a |-> 0, b |-> 0, c |-> 0]
        /\ IF ~readable
           THEN /\ flash' = ZeroFlash /\ ram' = ZeroRam
                /\ panicked' = TRUE /\ ret' = [NoRet EXCEPT !.kind = "panic"]
                /\ UNCHANGED initialized
           ELSE /\ flash' = image
                /\ ram' = [i \in 0..(MEMORY_RAM_SIZE - 1) |->
                              IF i \in DOMAIN InitSfr THEN InitSfr[i] ELSE 0]
                /\ initialized' = TRUE
                /\ panicked' = FALSE /\ ret' = [NoRet EXCEPT !.kind = "Ok"]
    /\ nops' = nops + 1
    /\ UNCHANGED <<halt, crate, overflow_checks, pc>>

\* (a reset that also zeroes the internal data, as init does)
CPU_reset_zeroing ==
    /\ Cycling
    /\ initialized' = FALSE
    /\ ram' = ZeroRam
    /\ call' = [op |-> "reset", a |-> 0, b |-> 0, c |-> 0]
    /\ ret' = [NoRet EXCEPT !.kind = "Ok"]
    /\ nops' = nops + 1
    /\ UNCHANGED <<halt, crate, overflow_checks, pc, panicked, flash>>

\* CPU::reset
CPU_reset ==
    /\ Cycling
    /\ initialized' = FALSE
    /\ call' = [op |-> "reset", a |-> 0, b |-> 0, c |-> 0]
    /\ ret' = [NoRet EXCEPT !.kind = "Ok"]
    /\ nops' = nops + 1
    /\ UNCHANGED <<halt, crate, overflow_checks, pc, ram, panicked, flash>>

\* CPU::cycle
CPU_cycle ==
    /\ Cycling
    /\ LET o == cycle(initialized, flash, ram, pc, overflow_checks)
       IN  /\ call' = [op |-> "cycle", a |-> pc, b |-> 0, c |-> 0]
           /\ pc' = o.pc
           /\ ram' = o.mem
           /\ panicked' = (o.res = "panic")
           /\ ret' = [NoRet EXCEPT !.kind = o.res]
    /\ nops' = nops + 1
    /\ UNCHANGED <<halt, crate, overflow_checks, initialized, flash>>

NextCycle == CPU_init \/ CPU_reset \/ CPU_cycle

SpecCycle == CPU_default /\ [][NextCycle]_vars

(***************************************************************************)
(* C20: cycle() called while initialized is false (before any init, or     *)
(* after reset) returns the UninitializedCPU error and leaves pc, the code *)
(* memory and the internal data unchanged: nothing is fetched or executed. *)
(***************************************************************************)
C20_CycleUninitialized ==
    [][(call'.op = "cycle" /\ ~initialized) =>
            /\ ret'.kind = "UninitializedCPU"
            /\ ~panicked'
            /\ pc' = pc /\ flash' = flash /\ ram' = ram
            /\ initialized' = initialized]_vars

\* a CPU that was initialized with a code image, cycled, and then reset has
\* refused a cycle
C20_Witness ==
    /\ call.op = "cycle" /\ ret.kind = "UninitializedCPU"
    /\ ~initialized /\ flash # ZeroFlash /\ pc # 0

(***************************************************************************)
(* C21: reset() changes only the initialized flag, to false: pc, the code  *)
(* memory and the internal data are unchanged by it; and from a reset on,  *)
(* until init() is called again, no cycle() executes an instruction.       *)
(***************************************************************************)
C21_Reset ==
    [][/\ call'.op = "reset" =>
            /\ ~initialized' /\ ~panicked'
            /\ pc' = pc /\ flash' = flash /\ ram' = ram
       /\ (~initialized /\ call'.op # "init") =>
            /\ ~initialized'
            /\ call'.op = "cycle" =>
                    (ret'.kind = "UninitializedCPU" /\ pc' = pc /\ ram' = ram)]_vars

\* an initialized CPU that has run (its PC has moved) has just been reset
C21_Witness ==
    /\ call.op = "reset" /\ ~initialized
    /\ flash # ZeroFlash /\ ram[SFR_SP] # 0 /\ pc # 0

(***************************************************************************)
(* The two drivers.  src/main.rs: CPU::init, load_from_file once, then     *)
(* CPU::run, the legacy fetch loop.  shiro51 main.rs: Emulator::new, then  *)
(* in headless mode Emulator::run, which loops on cycle().unwrap().        *)
(* call.op is the driver's position; for a loop iteration call.a is the PC *)
(* it fetched at, call.b the opcode and call.c the instruction's length.   *)
(***************************************************************************)
MaxRun == 8

\* Instruction::get_num_bytes
get_num_bytes(op) ==
    IF op \in {2, 181} THEN 3
    ELSE IF op \in AjmpOps \cup {128} \cup 120..127 \cup 216..223 THEN 2
    ELSE 1

\* usize addition on pc (a value 2^64 - n is written -n): it overflows when
\* the sum passes 2^64
usize_add(p, n) == [val |-> p + n, overflows |-> p < 0 /\ p + n >= 0]

\* legacy run_instruction: NOP, AJMP1..8, LJMP, RR_A, INC_A, RL_A,
\* MOV_Rn_CONST, SJMP, INC_DPTR, CJNE_A_DATA_CODE (0xb5), DJNZ_Rn_CODE,
\* MOVX_A_INDIRECT_DPTR and the default arm
run_instruction(f, mem, pc0, op, arg0, arg1, checks) ==
    LET acc == mem[SFR_ACC]
        R(m, p, r, h) == [mem |-> m, pc |-> p, res |-> r, halt |-> h]
        p2  == usize_add(pc0, 2)
        p3  == usize_add(pc0, 3)
        dptr == mem[131] * 256 + mem[130]
    IN  IF op = 0 THEN R(mem, pc0, "Advance", FALSE)
        ELSE IF op \in AjmpOps
        THEN IF p2.overflows /\ checks THEN R(mem, pc0, "panic", FALSE)
             ELSE R(mem, ajmp_target(p2.val % 65536, op, arg0), "Handled", FALSE)
        ELSE IF op = 2 THEN R(mem, arg0 * 256 + arg1, "Handled", FALSE)
        ELSE IF op = 3 THEN R(write(mem, SFR_ACC, acc \div 2), pc0, "Advance", FALSE)
        ELSE IF op = 4
        THEN IF u8_add_overflows(acc, 1) /\ checks THEN R(mem, pc0, "panic", FALSE)
             ELSE R(write(mem, SFR_ACC, (acc + 1) % 256), pc0, "Advance", FALSE)
        ELSE IF op = 35 THEN R(write(mem, SFR_ACC, (acc * 2) % 256), pc0, "Advance", FALSE)
        ELSE IF op = 128
        THEN IF p2.overflows /\ checks THEN R(mem, pc0, "panic", FALSE)
             ELSE IF is_bit_set(arg0, 7) THEN R(mem, p2.val + to_signed(arg0), "Handled", FALSE)
             ELSE IF usize_add(p2.val, arg0).overflows /\ checks THEN R(mem, p2.val, "panic", FALSE)
             ELSE R(mem, p2.val + arg0, "Handled", FALSE)
        ELSE IF op \in 120..127 THEN R(set_gpr_reg(mem, op - 120, arg0), pc0, "Advance", FALSE)
        ELSE IF op = 163
        THEN IF dptr + 1 > 65535 /\ checks THEN R(mem, pc0, "panic", FALSE)
             ELSE R(write(write(mem, 130, (dptr + 1) % 256), 131, ((dptr + 1) % 65536) \div 256),
                    pc0, "Advance", FALSE)
        ELSE IF op \in 216..223
        THEN LET data == get_gpr_reg(mem, op - 216)
             IN  IF p2.overflows /\ checks THEN R(mem, pc0, "panic", FALSE)
                 ELSE IF data = 0 THEN R(mem, p2.val, "Handled", FALSE)
                 ELSE IF usize_add(p2.val, arg1).overflows /\ checks
                 THEN R(set_gpr_reg(mem, op - 216, data - 1), p2.val, "panic", FALSE)
                 ELSE R(set_gpr_reg(mem, op - 216, data - 1), p2.val + arg1, "Handled", FALSE)
        ELSE IF op = 224
        THEN IF dptr >= MEMORY_FLASH_SIZE THEN R(mem, pc0, "panic", FALSE)
             ELSE R(write(mem, SFR_ACC, flash_at(f, dptr)), pc0, "Advance", FALSE)
        ELSE IF op = 181
        THEN LET m == write(mem, SFR_PSW, assign_bit(mem[SFR_PSW], 7, acc < arg0))
             IN  IF p3.overflows /\ checks THEN R(mem, pc0, "panic", FALSE)
                 ELSE IF acc = arg0 THEN R(m, p3.val, "Handled", FALSE)
                 ELSE IF usize_add(p3.val, arg1).overflows /\ checks THEN R(mem, p3.val, "panic", FALSE)
                 ELSE R(m, p3.val + arg1, "Handled", FALSE)
        ELSE R(mem, pc0, "Advance", TRUE)

\* one iteration of the loop of CPU::run with halt false: fetch at pc as u16,
\* operand reads from flash, run_instruction, PC disposition
run_iteration(f, mem, pc0, checks) ==
    LET at(k)     == (pc0 + k) % 65536
        op        == flash_at(f, at(0))
        insn_size == get_num_bytes(op)
        arg0      == IF insn_size >= 2 THEN flash_at(f, at(1)) ELSE 0
        arg1      == IF insn_size = 3 THEN flash_at(f, at(2)) ELSE 0
        h         == run_instruction(f, mem, pc0, op, arg0, arg1, checks)
        adv       == usize_add(h.pc, insn_size)
        Res(r, p) == [mem |-> h.mem, pc |-> p, res |-> r, halt |-> h.halt,
                      op |-> op, size |-> insn_size, arg0 |-> arg0, arg1 |-> arg1]
    IN  IF \E k \in 0..(insn_size - 1) : at(k) >= MEMORY_FLASH_SIZE
        THEN [mem |-> mem, pc |-> pc0, res |-> "panic", halt |-> FALSE,
              op |-> op, size |-> insn_size, arg0 |-> arg0, arg1 |-> arg1]
        ELSE IF h.res = "Advance"
        THEN IF adv.overflows /\ checks THEN Res("panic", h.pc)
             ELSE IF adv.val >= 65535 \/ adv.val < 0 THEN Res("Advance", adv.val - 65535)
             ELSE Res("Advance", adv.val)
        ELSE Res(h.res, h.pc)

\* the flash images the legacy loader leaves
LegacyPrograms ==
    { (0 :> 0) @@ (1 :> 4) @@ (2 :> 128) @@ (3 :> 253),
      (0 :> 128) @@ (1 :> 128),
      (0 :> 2) @@ (1 :> 255) @@ (2 :> 254),
      (0 :> 2) @@ (1 :> 255) @@ (2 :> 255),
      (0 :> 0) @@ (1 :> 165) @@ (2 :> 4),
      (0 :> 181) @@ (1 :> 1) @@ (2 :> 2) @@ (5 :> 4) @@ (6 :> 181) @@ (7 :> 1) @@ (8 :> 130),
      (0 :> 181) @@ (1 :> 224) @@ (2 :> 4),
      (0 :> 163) @@ (1 :> 224) @@ (2 :> 163) @@ (3 :> 163) @@ (4 :> 224),
      (0 :> 122) @@ (1 :> 2) @@ (2 :> 218) @@ (3 :> 5) @@ (4 :> 218) @@ (5 :> 5),
      (0 :> 4) @@ (1 :> 35) @@ (2 :> 3) @@ (3 :> 225) @@ (4 :> 254)
          @@ (2046 :> 2) @@ (2047 :> 255) @@ (2048 :> 200) @@ (65480 :> 128) @@ (65481 :> 127),
      (0 :> 2) @@ (1 :> 255) @@ (2 :> 253) @@ (65533 :> 3) @@ (65534 :> 165) }

\* the state main holds after CPU::init() (legacy: Memory::init writes ACC
\* and SP) or after Emulator::new (mcu: CPU::default)
InitDriver ==
    /\ crate \in {"legacy", "mcu"}
    /\ overflow_checks \in BOOLEAN
    /\ pc = 0
    /\ ram = IF crate = "legacy" THEN write(write(ZeroRam, SFR_ACC, 0), SFR_SP, 7) ELSE ZeroRam
    /\ panicked = FALSE
    /\ call = [NoCall EXCEPT !.op = IF crate = "legacy" THEN "init" ELSE "new"]
    /\ ret = NoRet
    /\ nops = 0
    /\ initialized = FALSE
    /\ flash = ZeroFlash
    /\ halt = FALSE

\* src/main.rs: cpu.load_from_file("MONKAW.HEX"); a file that cannot be
\* opened or decoded panics (expect / unwrap)
main_load_from_file ==
    /\ crate = "legacy" /\ call.op = "init" /\ ~panicked
    /\ \E image \in LegacyPrograms, readable \in BOOLEAN :
        /\ flash' = IF readable THEN image ELSE flash
        /\ panicked' = ~readable
        /\ ret' = [NoRet EXCEPT !.kind = IF readable THEN "true" ELSE "panic"]
    /\ call' = [NoCall EXCEPT !.op = "load_from_file"]
    /\ nops' = nops + 1
    /\ UNCHANGED <<halt, crate, overflow_checks, pc, ram, initialized>>

\* (the loop of CPU::run without the test of halt at its top)
CPU_run_ignoring_halt ==
    /\ crate = "legacy" /\ call.op \in {"load_from_file", "run"}
    /\ ~panicked /\ nops < MaxRun /\ ret.kind # "break"
    /\ LET o == run_iteration(flash, ram, pc, overflow_checks)
       IN  /\ call' = [op |-> "run", a |-> pc, b |-> o.op, c |-> o.size]
           /\ ret' = [NoRet EXCEPT !.kind = o.res]
           /\ pc' = o.pc
           /\ ram' = o.mem
           /\ halt' = (halt \/ o.halt)
           /\ panicked' = (o.res = "panic")
    /\ nops' = nops + 1
    /\ UNCHANGED <<crate, overflow_checks, initialized, flash>>

\* src/main.rs: cpu.run(), one pass through the loop: break when halt is
\* set, or else one iteration
CPU_run ==
    /\ crate = "legacy" /\ call.op \in {"load_from_file", "run"}
    /\ ~panicked /\ nops < MaxRun /\ ret.kind # "break"
    /\ IF halt
       THEN /\ call' = [NoCall EXCEPT !.op = "run"]
            /\ ret' = [NoRet EXCEPT !.kind = "break"]
            /\ UNCHANGED <<pc, ram, halt, panicked>>
       ELSE LET o == run_iteration(flash, ram, pc, overflow_checks)
            IN  /\ call' = [op |-> "run", a |-> pc, b |-> o.op, c |-> o.size]
                /\ ret' = [NoRet EXCEPT !.kind = o.res]
                /\ pc' = o.pc
                /\ ram' = o.mem
                /\ halt' = o.halt
                /\ panicked' = (o.res = "panic")
    /\ nops' = nops + 1
    /\ UNCHANGED <<crate, overflow_checks, initialized, flash>>

\* shiro51 main.rs: the branch on cli.no_gui
shiro51_main ==
    /\ crate = "mcu" /\ call.op = "new"
    /\ \E no_gui \in BOOLEAN :
        call' = [NoCall EXCEPT !.op = IF no_gui THEN "headless" ELSE "gui"]
    /\ ret' = NoRet
    /\ nops' = nops + 1
    /\ UNCHANGED <<halt, crate, overflow_checks, pc, ram, panicked, initialized, flash>>

\* Emulator::run, one iteration: self.cpu.cycle().unwrap()
Emulator_run ==
    /\ crate = "mcu" /\ call.op \in {"headless", "cycle"}
    /\ ~panicked /\ nops < MaxRun
    /\ LET o == cycle(initialized, flash, ram, pc, overflow_checks)
       IN  /\ call' = [op |-> "cycle", a |-> pc, b |-> 0, c |-> 0]
           /\ pc' = o.pc
           /\ ram' = o.mem
           /\ panicked' = (o.res # "Ok")
           /\ ret' = [NoRet EXCEPT !.kind = o.res]
    /\ nops' = nops + 1
    /\ UNCHANGED <<halt, crate, overflow_checks, initialized, flash>>

NextDriver == main_load_from_file \/ CPU_run \/ shiro51_main \/ Emulator_run

SpecDriver == InitDriver /\ [][NextDriver]_vars

(***************************************************************************)
(* C22: the driver constructs the core, loads the program exactly once and *)
(* only then drives the fetch loop: every cycle() of the mcu driver finds  *)
(* the CPU initialized, every pass of the legacy loop comes after          *)
(* load_from_file, and no load follows the first pass.                     *)
(***************************************************************************)
C22_DriverLoadsFirst ==
    [][/\ call'.op = "cycle" => (initialized /\ ret'.kind # "UninitializedCPU")
       /\ call'.op = "run" => call.op \in {"load_from_file", "run"}
       /\ call'.op = "load_from_file" => call.op = "init"]_vars

(***************************************************************************)
(* C23: in every state reachable by any sequence of instructions the pc    *)
(* lies in 0..65535.                                                       *)
(***************************************************************************)
C23_PcInRange == pc \in 0..65535

(***************************************************************************)
(* C24: executing an opcode that has no implemented handler puts the CPU   *)
(* into the halted state, and halted is absorbing: once halt is set no     *)
(* further instruction is fetched or executed, and pc and all memory never *)
(* change again.                                                           *)
(***************************************************************************)
C24_HaltAbsorbing ==
    [][/\ ( /\ call'.op = "run" /\ ret'.kind = "Advance"
            /\ call'.b \notin ({0, 2, 3, 4, 35, 128, 163, 181, 224} \cup AjmpOps \cup 120..127 \cup 216..223) ) => halt'
       /\ halt => /\ halt' /\ ret'.kind = "break"
                  /\ pc' = pc /\ ram' = ram /\ flash' = flash]_vars

\* an unimplemented opcode has halted the CPU after other instructions ran,
\* and the loop has been entered once more
C24_Witness ==
    /\ crate = "legacy" /\ halt /\ ret.kind = "break"
    /\ nops > 3 /\ flash # ZeroFlash

(***************************************************************************)
(* C25: immediately after a successful init the special function registers *)
(* hold ADC0CF = 0xF8, ADC0GTH = 0xFF, ADC0GTL = 0xFF, CPT0MD = CPT1MD =   *)
(* 0x02, SP = 0x07, IT01CF = 0x01, PFE0CN = 0x20 and ACC = 0x00, and (mcu)  *)
(* initialized is true.                                                    *)
(***************************************************************************)
C25_InitSfrs ==
    (call.op = "init" /\ ~panicked) =>
        /\ ram[188] = 248 /\ ram[196] = 255 /\ ram[195] = 255
        /\ ram[157] = 2 /\ ram[156] = 2 /\ ram[SFR_SP] = 7
        /\ ram[228] = 1 /\ ram[175] = 32 /\ ram[SFR_ACC] = 0
        /\ crate = "mcu" => initialized

(***************************************************************************)
(* C26: the fetch hands an instruction of length 2 the operand code[P+1]   *)
(* and one of length 3 the operands code[P+1] and code[P+2], always read   *)
(* from the code memory: a 3-byte instruction (LJMP) is never reported as  *)
(* missing an operand and lands on code[P+1]*256 + code[P+2]; a 2-byte     *)
(* AJMP lands on the page address built from code[P+1]; and no operand     *)
(* fetch fails on the size of the internal data.                           *)
(***************************************************************************)
C26_Operands ==
    [][(call'.op \in {"cycle", "run"} /\ (crate = "mcu" => initialized) /\ ret'.kind # "break") =>
        LET P  == pc
            op == flash_at(flash, P % 65536)
            L  == IF crate = "mcu" THEN bytes(op) ELSE get_num_bytes(op)
            c1 == flash_at(flash, (P + 1) % 65536)
            c2 == flash_at(flash, (P + 2) % 65536)
        IN  /\ L = 3 => ret'.kind \notin {"InstructionArg0Missing", "InstructionArg1Missing"}
            /\ (op = 2 /\ P + 2 < MEMORY_FLASH_SIZE) => (~panicked' /\ pc' = c1 * 256 + c2)
            /\ (op \in AjmpOps /\ P + 1 < MEMORY_FLASH_SIZE) =>
                    (~panicked' /\ pc' = ajmp_target((P + 2) % 65536, op, c1))]_vars

(***************************************************************************)
(* C27: when the handler of an instruction of length L fetched at P asks   *)
(* for ADVANCE, the next PC is (P + L) mod 65536, for every P (also when   *)
(* P + L reaches 65535 or more), and the step does not fail.               *)
(***************************************************************************)
C27_Advance ==
    [][/\ (call'.op = "run" /\ ret'.kind = "Advance" /\ pc \in 0..65535) =>
            pc' = (pc + call'.c) % 65536
       /\ (call'.op = "cycle" /\ initialized /\ flash_at(flash, pc) = 0 /\ pc + 1 < MEMORY_FLASH_SIZE) =>
            (ret'.kind = "Ok" /\ pc' = (pc + 1) % 65536)]_vars

(***************************************************************************)
(* C28: after an ADD, ADDC or SUBB handler the PSW bits other than CY (7), *)
(* AC (6) and OV (2) hold their prior values, and each of CY, AC and OV is *)
(* written to the value of the operation on a, b and the incoming carry c. *)
(***************************************************************************)
C28_PswFrame ==
    [][(call'.op \in {"ADD", "ADDC", "SUBB"} /\ ~panicked') =>
        LET a == call'.a
            b == call'.b
            c == call'.c
            p == ram'[SFR_PSW]
            s == to_signed(a) - to_signed(b) - c
        IN  /\ \A bit \in {0, 1, 3, 4, 5} : get_bit(p, bit) = get_bit(ram[SFR_PSW], bit)
            /\ call'.op \in {"ADD", "ADDC"} =>
                /\ is_bit_set(p, 7) = carry7(a, b, c)
                /\ is_bit_set(p, 6) = ((a % 16) + (b % 16) + c >= 16)
                /\ is_bit_set(p, 2) = (carry6(a, b, c) # carry7(a, b, c))
            /\ call'.op = "SUBB" =>
                /\ is_bit_set(p, 7) = (a < b + c)
                /\ is_bit_set(p, 6) = ((a % 16) < (b % 16) + c)
                /\ is_bit_set(p, 2) = (s < -128 \/ s > 127)]_vars

(***************************************************************************)
(* C29: CJNE at PC P with operands x (first) and y (second) and relative   *)
(* operand r leaves PC = P + 3, plus signed(r) exactly when x # y (taken    *)
(* modulo 65536); it sets CY when x < y as unsigned bytes and clears it    *)
(* otherwise; every other PSW bit and every other cell of the internal     *)
(* data, both operands included, keep their values.                        *)
(***************************************************************************)
C29_Cjne ==
    [][call'.op = "CJNE" =>
        LET x == call'.b
            y == call'.a
            r == call'.c
        IN  /\ ~panicked'
            /\ pc' % 65536 = (pc + 3 + (IF x # y THEN signed(r) ELSE 0)) % 65536
            /\ ram' = write(ram, SFR_PSW, assign_bit(ram[SFR_PSW], 7, x < y))]_vars

(***************************************************************************)
(* RL A and RR A, on a CPU whose accumulator and PSW hold sampled values.  *)
(* call.a is the accumulator the handler read, call.b the accumulator at   *)
(* the start of the current run of the same instruction, call.c the length *)
(* of that run.                                                            *)
(***************************************************************************)
MaxRotates == 8

InitRotate ==
    /\ crate \in {"legacy", "mcu"}
    /\ overflow_checks \in BOOLEAN
    /\ pc = 0
    /\ \E acc \in ByteSamples, psw \in PswSamples : ram = ArithRam(acc, 0, psw)
    /\ panicked = FALSE
    /\ call = NoCall
    /\ ret = NoRet
    /\ nops = 0
    /\ initialized = TRUE
    /\ flash = ZeroFlash
    /\ halt = FALSE

\* legacy run_instruction RL_A / mcu insn_rl_a: ACC << 1 on a u8
RL_A ==
    /\ ~panicked /\ nops < MaxRotates
    /\ LET acc == ram[SFR_ACC]
       IN  /\ call' = [op |-> "RL", a |-> acc,
                       b |-> IF call.op = "RL" THEN call.b ELSE acc,
                       c |-> IF call.op = "RL" THEN call.c + 1 ELSE 1]
           /\ Apply(Out(write(ram, SFR_ACC, (acc * 2) % 256),
                        IF crate = "mcu" THEN "ADVANCE" ELSE "Advance"))
    /\ UNCHANGED pc

\* legacy run_instruction RR_A / mcu insn_rr_a: ACC >> 1
RR_A ==
    /\ ~panicked /\ nops < MaxRotates
    /\ LET acc == ram[SFR_ACC]
       IN  /\ call' = [op |-> "RR", a |-> acc,
                       b |-> IF call.op = "RR" THEN call.b ELSE acc,
                       c |-> IF call.op = "RR" THEN call.c + 1 ELSE 1]
           /\ Apply(Out(write(ram, SFR_ACC, acc \div 2),
                        IF crate = "mcu" THEN "ADVANCE" ELSE "Advance"))
    /\ UNCHANGED pc

NextRotate == RL_A \/ RR_A

SpecRotate == InitRotate /\ [][NextRotate]_vars

(***************************************************************************)
(* C30: RL A rotates the accumulator left by one, bit 7 entering bit 0,    *)
(* and RR A rotates it right by one, bit 0 entering bit 7; RL followed by  *)
(* RR restores the accumulator, eight RL in a row restore it, and neither  *)
(* instruction changes PSW.                                                *)
(***************************************************************************)
C30_Rotate ==
    [][call'.op \in {"RL", "RR"} =>
        LET x == call'.a
        IN  /\ call'.op = "RL" => ram'[SFR_ACC] = ((x * 2) % 256) + (x \div 128)
            /\ call'.op = "RR" => ram'[SFR_ACC] = (x \div 2) + ((x % 2) * 128)
            /\ (call.op = "RL" /\ call'.op = "RR") => ram'[SFR_ACC] = call.a
            /\ (call'.op = "RL" /\ call'.c = 8) => ram'[SFR_ACC] = call'.b
            /\ ram'[SFR_PSW] = ram[SFR_PSW]]_vars

(***************************************************************************)
(* The external data: EMI::default, xram: [0u8; MEMORY_XRAM_SIZE].  No     *)
(* operation of either crate writes it.                                    *)
(***************************************************************************)
EMI_default == [i \in 0..4095 |-> 0]

(***************************************************************************)
(* C31: MOVX A,@DPTR loads ACC from the external data cell at the address  *)
(* (DPH << 8) | DPL, not from the code memory, and changes nothing else    *)
(* except that PC advances by 1.                                           *)
(***************************************************************************)
C31_Movx ==
    [][(call'.op = "run" /\ call'.b = 224 /\ ram[131] * 256 + ram[130] \in DOMAIN EMI_default) =>
        /\ ~panicked'
        /\ ram' = write(ram, SFR_ACC, EMI_default[ram[131] * 256 + ram[130]])
        /\ pc' = pc + 1
        /\ flash' = flash]_vars

(***************************************************************************)
(* C32: ADD A,@Ri and ADDC A,@Ri add the cell of the internal data whose   *)
(* address register Ri holds, idata[Ri], while ADD A,Rn adds the           *)
(* register's own value; whenever idata[Ri] differs from Ri the indirect   *)
(* instruction leaves another accumulator than the register one.           *)
(***************************************************************************)
C32_IndirectOperand ==
    [][/\ (call'.op = "ADD_A_Rn" /\ ~panicked') =>
            ram'[SFR_ACC] = (call'.a + ram[call'.b]) % 256
       /\ (call'.op = "ADD_A_@Ri" /\ ~panicked' /\ ram[call'.b] \in DOMAIN ram) =>
            /\ ram'[SFR_ACC] = (call'.a + ram[ram[call'.b]]) % 256
            /\ (ram[ram[call'.b]] # ram[call'.b] =>
                    ram'[SFR_ACC] # insn_add_a_rn(ram, call'.b).mem[SFR_ACC])
       /\ (call'.op = "ADDC_A_@Ri" /\ ~panicked' /\ ram[call'.b] \in DOMAIN ram) =>
            (ram[ram[call'.b]] # ram[call'.b] =>
                    ram'[SFR_ACC] # insn_addc_a_rn(ram, call'.b, overflow_checks).mem[SFR_ACC])]_vars

(***************************************************************************)
(* C33: every bit address b in 0..255 decodes to a byte of the             *)
(* bit-addressable set, 0x20..0x2F or a multiple of 8 from 0x80 (0x80..0x87 *)
(* all decode to 0x80), so no bit access on such an address returns        *)
(* InvalidBitAddr or fails.                                                *)
(***************************************************************************)
C33_BitAddrTotal ==
    (call.op \in BitAccess /\ call.b \in Byte) =>
        /\ call.a \in BitAddressableSet
        /\ call.a = DecodedByte(call.b)
        /\ ret.kind # "InvalidBitAddr"
        /\ ~panicked

(***************************************************************************)
(* C34: for every PC P and stack pointer S in 0..0xFD, ACALL executed at P *)
(* and immediately followed by RET leaves PC = P + 2 and SP = S, whatever  *)
(* the target of the call.                                                 *)
(***************************************************************************)
C34_CallReturn ==
    [][/\ (crate = "legacy" /\ call'.op = "ACALL" /\ ram[SFR_SP] <= 253) => ~panicked'
       /\ (call.op = "ACALL" /\ call'.op = "RET" /\ ret.val <= 253) =>
            (~panicked' /\ pc' = call.c + 2 /\ ram'[SFR_SP] = ret.val)]_vars

(***************************************************************************)
(* C35: for every PC in 0..65535 the fetch reads the opcode and its        *)
(* operand bytes at valid indices of the code memory: no read at PC, PC+1  *)
(* or PC+2 falls outside the code array, PC = 0xFFFF included, and the     *)
(* fetch of an instruction whose handler cannot fail does not fail.        *)
(***************************************************************************)
C35_FetchInBounds ==
    [][(call'.op = "run" /\ ret'.kind # "break" /\ pc \in 0..65535) =>
        /\ \A k \in 0..(call'.c - 1) : (pc + k) % 65536 < MEMORY_FLASH_SIZE
        /\ call'.b \in {0, 2} => ~panicked']_vars

(***************************************************************************)
(* C36: init() establishes the initial pc together with the SFR reset      *)
(* values: after any successful init (after a reset or not, whatever ran   *)
(* before) pc is 0 and the stack pointer is 7, and the first cycle() after *)
(* it fetches code[0].                                                     *)
(***************************************************************************)
C36_InitRestarts ==
    [][/\ (call'.op = "init" /\ ~panicked') =>
            (pc' = 0 /\ ram'[SFR_SP] = 7 /\ initialized')
       /\ (call.op = "init" /\ ~panicked /\ call'.op = "cycle") =>
            call'.a = 0]_vars

C38_CjneDirect ==
    [][(call'.op = "run" /\ call'.b = 181 /\ ~panicked' /\ pc \in 0..65535
            /\ flash_at(flash, pc + 1) < 255 /\ flash_at(flash, pc + 2) # 0) =>
        LET acc    == ram[SFR_ACC]
            direct == ram[flash_at(flash, pc + 1)]
        IN  /\ (pc' # pc + 3) <=> (acc # direct)
            /\ ((ram'[SFR_PSW] \div 128) % 2 = 1) <=> (acc < direct)]_vars

(***************************************************************************)
(* C39: DJNZ Rn,rel (opcodes 0xD8..0xDF, two bytes) fetched at P by the    *)
(* fetch loop: when the branch is taken (the decremented register is not   *)
(* zero) the offset added to P + 2 is the operand byte code[P+1], so a     *)
(* taken DJNZ Rn with a nonzero operand does not land on P + 2.            *)
(***************************************************************************)
C39_DjnzOffset ==
    [][(call'.op = "run" /\ call'.b \in 216..223 /\ ~panicked' /\ pc \in 0..65535
            /\ flash_at(flash, pc + 1) # 0
            /\ get_gpr_reg(ram', call'.b - 216) # 0) =>
        /\ pc' # pc + 2
        /\ pc' % 65536 = (pc + 2 + signed(flash_at(flash, pc + 1))) % 65536]_vars

(***************************************************************************)
(* The (optionally signed) byte of src/lib/ops/bytes.rs.  A byte is its    *)
(* inner value and its signed mark; an i8 is an integer of -128..127.      *)
(* After a conversion call.a is the converted number, call.b the inner     *)
(* value and call.c the signed mark (1 or 0); to_signed keeps them and     *)
(* leaves its result in ret.val.                                           *)
(***************************************************************************)
I8 == -128..127

\* impl From<u8> for Byte
Byte_from_u8(val) == [value |-> val, signed |-> FALSE]

\* impl From<i8> for Byte: val as u8 is the two's complement byte
Byte_from_i8(val) ==
    LET byte == IF val < 0 THEN val + 256 ELSE val
    IN  [value |-> IF byte > 127 THEN byte - 127 ELSE byte, signed |-> TRUE]

\* Byte::to_signed: 0i8 - (value - 127) as i8; for value = 255 the cast gives
\* -128 and the subtraction overflows i8
Byte_to_signed(value, checks) ==
    LET cast == signed(value - 127)
    IN  IF value <= 127 THEN [val |-> value, panics |-> FALSE]
        ELSE IF 0 - cast > 127
        THEN [val |-> (0 - cast) - 256, panics |-> checks]
        ELSE [val |-> 0 - cast, panics |-> FALSE]

InitByte ==
    /\ crate = "legacy"
    /\ overflow_checks \in BOOLEAN
    /\ pc = 0
    /\ ram = ZeroRam
    /\ panicked = FALSE
    /\ call = NoCall
    /\ ret = NoRet
    /\ nops = 0
    /\ initialized = FALSE
    /\ flash = ZeroFlash
    /\ halt = FALSE

\* Byte::from(x) for an unsigned byte or for an i8, as in the test create_byte
create_byte ==
    /\ Fresh
    /\ \/ \E x \in Byte :
            call' = [op |-> "from_u8", a |-> x, b |-> Byte_from_u8(x).value,
                     c |-> IF Byte_from_u8(x).signed THEN 1 ELSE 0]
       \/ \E x \in I8 :
            call' = [op |-> "from_i8", a |-> x, b |-> Byte_from_i8(x).value,
                     c |-> IF Byte_from_i8(x).signed THEN 1 ELSE 0]
    /\ ret' = [NoRet EXCEPT !.kind = "Ok"]
    /\ nops' = nops + 1
    /\ UNCHANGED <<halt, crate, overflow_checks, pc, ram, panicked, initialized, flash>>

\* to_signed() of the byte just created, as in the test to_signed
byte_to_signed ==
    /\ ~panicked /\ nops = 1 /\ call.op \in {"from_u8", "from_i8"}
    /\ LET o == Byte_to_signed(call.b, overflow_checks)
       IN  /\ call' = [call EXCEPT !.op = "to_signed"]
           /\ panicked' = o.panics
           /\ ret' = [NoRet EXCEPT !.kind = IF o.panics THEN "panic" ELSE "Ok",
                                   !.val = IF o.panics THEN 0 ELSE o.val]
    /\ nops' = nops + 1
    /\ UNCHANGED <<halt, crate, overflow_checks, pc, ram, initialized, flash>>

NextByte == create_byte \/ byte_to_signed

SpecByte == InitByte /\ [][NextByte]_vars

(***************************************************************************)
(* C40: for every i8 x, Byte::from(x) is marked signed; a non-negative x   *)
(* is stored unchanged and a negative x as inner value 127 + |x| (-1 as    *)
(* 128, -128 as 255); Byte::from(x).to_signed() = x; and to_signed is      *)
(* defined for every inner value 0..255, with 128 giving -1 and 129 -2.    *)
(***************************************************************************)
C40_ByteRoundTrip ==
    [][/\ call'.op = "from_i8" =>
            /\ call'.c = 1
            /\ call'.b = (IF call'.a >= 0 THEN call'.a ELSE 127 - call'.a)
       /\ call'.op = "to_signed" =>
            /\ ~panicked'
            /\ call'.b = 128 => ret'.val = -1
            /\ call'.b = 129 => ret'.val = -2
            /\ call.op = "from_i8" => ret'.val = call.a]_vars

====
